---- MODULE Spec2Model ----
(***************************************************************************)
(* Cost center reconciliation of gh-cost-center.  Teams-based runs:         *)
(* BuildTeamAssignments, EnsureCostCentersExist, SyncTeamAssignments,      *)
(* handleUserRemoval (internal/teams/manager.go) and the cost-center       *)
(* client calls they make (AddUsersToCostCenter, CreateCostCenter, ...).   *)
(* Repository-based runs: Run and processMapping (internal/repository).    *)
(* Components on their own: EnsureCostCentersExist, budgets.Manager, the   *)
(* batch loop of AddUsersToCostCenter and the request helper doJSON.        *)
(***************************************************************************)
EXTENDS Integers, Sequences, FiniteSets, TLC

VARIABLES
    \* configuration (teams.Manager fields, command flags)
    scope, mode, orgs, mappings, autoCreate, removeUsers, createBudgets,
    runMode, assignCheckCurrentCC,
    \* remote service
    remoteTeamMembers,   \* <<scope key, slug>> -> member logins
    remoteCC,            \* name -> id of the active cost centers
    remoteMember,        \* user -> id of its cost center, or None
    remoteCC0, remoteMember0,   \* the remote state before the run
    ccCache,             \* the client's durable lookup cache (name -> id)
    \* teams.Manager run state
    pc, err, membersCache, ccNameCache, processed, userFinal, userTeamMap,
    assignments, ccMap, newlyCreated, idBased, results, removedResults,
    pending,             \* cost centers still to visit in the current loop
    \* call log
    createCalls, budgetCalls, addCalls, removeCalls, ensureLog, addLog,
    removeLog, fails, failed,
    \* AddUsersToCostCenter batch loop on its own (SpecBatch)
    bToAdd, bI, bResults, bSent,
    \* repository-based run
    flow,                \* "teams" (--teams) or "repos" (--repo)
    repoMappings, allRepos,
    remoteRepo,          \* repository full name -> id of its cost center
    remoteRepo0,
    activeCCs, rI, mappingResults, repoCalls,
    \* EnsureCostCentersExist on its own (SpecEnsure)
    eNames, eRuns,
    remoteInactive,      \* names of the cost centers that are not active
    \* budget creation
    budgetLog,           \* the CreateProductBudget calls of the run, in order
    bmProducts, bmUnavailable, bmLog, bmCalls,  \* budgets.Manager
    \* one doJSON call of the client (SpecCall)
    dest,                \* whether a decode destination was passed
    attempt,             \* the loop's attempt counter
    callPc,              \* "idle", "loop" or "returned"
    callLog,             \* the requests issued so far and how each ended
    callRet,             \* what the call returned
    now,                 \* the clock, in seconds
    \* the cost center cache (SpecCache)
    data,                \* c.data of the live Cache: version and entries
    file,                \* the cache file on disk
    clock,               \* the wall clock, in hours
    lastOp,              \* the last cache operation and what it returned
    \* the team loop of the build, one team per step (SpecMemo)
    memoLog,             \* the lookups made so far and what each returned
    \* GetAllActiveCostCenters with the cache attached (SpecList)
    listLog,             \* the listings made so far and what each returned
    \* concurrent callers of one Cache (SpecLock)
    mu,                  \* the callers that hold c.mu
    thr,                 \* caller -> where it is in its operation
    opLog,               \* the operations in the order they locked c.mu
    \* findMatchingRepos on its own (SpecMatch)
    matchLog             \* what findMatchingRepos returned for the inputs

vars == <<scope, mode, orgs, mappings, autoCreate, removeUsers, createBudgets,
          runMode, assignCheckCurrentCC, remoteTeamMembers, remoteCC,
          remoteMember, remoteCC0, remoteMember0, ccCache, pc, err, membersCache,
          ccNameCache, processed, userFinal, userTeamMap, assignments, ccMap,
          newlyCreated, idBased, results, removedResults, pending,
          createCalls, budgetCalls, addCalls, removeCalls, ensureLog, addLog,
          removeLog, fails, failed, bToAdd, bI, bResults, bSent, flow,
          repoMappings, allRepos, remoteRepo, remoteRepo0, activeCCs, rI,
          mappingResults, repoCalls, eNames, eRuns, remoteInactive,
          budgetLog, bmProducts, bmUnavailable, bmLog, bmCalls, dest,
          attempt, callPc, callLog, callRet, now, data, file, clock, lastOp,
          memoLog, listLog, mu, thr, opLog, matchLog>>

-----------------------------------------------------------------------------
\* Bounds of the model.

\* At most this many remote calls answer with an injected failure in one run.
MaxFail == 2

\* Number of consecutive EnsureCostCentersExist calls that are followed.
MaxRuns == 2

\* Number of EnsureBudgetsForCostCenter calls made on one budgets.Manager.
MaxBudgetRuns == 2

\* Longest list handed to the batch loop of AddUsersToCostCenter.
MaxToAdd == 120

\* Program constants.
batchSize == 50

None == "none"
Enterprise == "ent"
EmptyMap == [x \in {} |-> None]
NoRef == <<None, None>>

-----------------------------------------------------------------------------
\* Go maps and slices.

MapPut(m, k, v) == [x \in DOMAIN m \cup {k} |-> IF x = k THEN v ELSE m[x]]

MapGet(m, k, dflt) == IF k \in DOMAIN m THEN m[k] ELSE dflt

Range(s) == {s[i] : i \in DOMAIN s}

NoDup(s) == \A i, j \in DOMAIN s : i # j => s[i] # s[j]

\* All orders in which a Go map with key set S can be ranged over.
Orders(S) == {s \in [1..Cardinality(S) -> S] : Range(s) = S}

RECURSIVE Concat(_)
Concat(ss) == IF ss = <<>> THEN <<>> ELSE Head(ss) \o Concat(Tail(ss))

-----------------------------------------------------------------------------
\* The remote team directory.

Team(name, slug) == [Name |-> name, Slug |-> slug]

RemoteTeams(key) ==
    CASE key = "org1" -> <<Team("Team A", "team-a"), Team("Team B", "team-b")>>
      [] key = "org2" -> <<Team("Team A", "team-a")>>
      [] key = Enterprise -> <<Team("Team A", "team-a"), Team("Team B", "team-b")>>
      [] OTHER -> <<>>

\* The keys fetchAllTeams enumerates: the enterprise, or the configured orgs.
ScopeKeys(sc, os) == IF sc = "enterprise" THEN {Enterprise} ELSE Range(os)

TeamRefs(keys) == UNION {{<<k, t.Slug>> : t \in Range(RemoteTeams(k))} : k \in keys}

\* fetchAllTeams: scope key -> teams (the failing case is drawn by the caller).
fetchAllTeams(sc, os) == [k \in ScopeKeys(sc, os) |-> RemoteTeams(k)]

\* Mutant: the bare slug is the key in every scope.
TeamKey_Bare(sc, key, slug) == slug

\* The scope-qualified key of a team (manager.go 146-151, 181-186).
TeamKey(sc, key, slug) == IF sc = "enterprise" THEN slug ELSE key \o "/" \o slug

\* fetchTeamMembers drops empty logins.
FilterLogins(ms) == SelectSeq(ms, LAMBDA l : l # "")

\* fetchTeamMembers(orgOrEnterprise, teamSlug) with cache mc; memFail is the
\* team whose remote member listing fails, if any.
fetchTeamMembers(mc, sc, key, slug, dir, memFail) ==
    LET cacheKey == TeamKey(sc, key, slug) IN
    IF cacheKey \in DOMAIN mc
    THEN [members |-> mc[cacheKey], err |-> FALSE, cache |-> mc]
    ELSE IF memFail = <<key, slug>>
    THEN [members |-> <<>>, err |-> TRUE, cache |-> mc]
    ELSE LET usernames == FilterLogins(dir[<<key, slug>>]) IN
         [members |-> usernames, err |-> FALSE,
          cache |-> MapPut(mc, cacheKey, usernames)]

\* Mutant: a team without mapping resolves ok, to the empty name.
costCenterForTeam_MissOk(nc, sc, md, maps, key, team) ==
    LET teamKey == TeamKey(sc, key, team.Slug) IN
    IF md = "manual" /\ teamKey \in DOMAIN maps
    THEN [name |-> maps[teamKey], ok |-> TRUE, cache |-> MapPut(nc, teamKey, maps[teamKey])]
    ELSE IF md = "auto" /\ sc = "enterprise"
    THEN [name |-> "[enterprise team] " \o team.Name, ok |-> TRUE, cache |-> nc]
    ELSE IF md = "auto"
    THEN [name |-> "[org team] " \o key \o "/" \o team.Name, ok |-> TRUE, cache |-> nc]
    ELSE [name |-> "", ok |-> TRUE, cache |-> nc]

\* costCenterForTeam(orgOrEnterprise, team) with cache nc.
costCenterForTeam(nc, sc, md, maps, key, team) ==
    LET teamKey == TeamKey(sc, key, team.Slug) IN
    IF teamKey \in DOMAIN nc
    THEN [name |-> nc[teamKey], ok |-> TRUE, cache |-> nc]
    ELSE IF md = "manual"
    THEN IF teamKey \in DOMAIN maps
         THEN [name |-> maps[teamKey], ok |-> TRUE,
               cache |-> MapPut(nc, teamKey, maps[teamKey])]
         ELSE [name |-> "", ok |-> FALSE, cache |-> nc]
    ELSE IF md = "auto"
    THEN LET ccName == IF sc = "enterprise"
                       THEN "[enterprise team] " \o team.Name
                       ELSE "[org team] " \o key \o "/" \o team.Name IN
         [name |-> ccName, ok |-> TRUE, cache |-> MapPut(nc, teamKey, ccName)]
    ELSE [name |-> "", ok |-> FALSE, cache |-> nc]

UserAssignment(username, cc, org, slug) ==
    [Username |-> username, CostCenter |-> cc, Org |-> org, TeamSlug |-> slug]

\* Mutant: a user's first assignment is kept (first-team-wins).
UserFinalPut_KeepFirst(uf, username, ua) ==
    IF username \in DOMAIN uf THEN uf ELSE MapPut(uf, username, ua)

\* Mutant: the final assignments are keyed by user and team, not by user.
UserFinalPut_PerTeam(uf, username, ua) ==
    MapPut(uf, username \o "@" \o ua.Org \o "/" \o ua.TeamSlug, ua)

\* userFinal[username] = UserAssignment{...}: last-team-wins overwrite.
UserFinalPut(uf, username, ua) == MapPut(uf, username, ua)

\* The member loop of one team (manager.go 280-289).
RECURSIVE RecordMembers(_, _, _, _, _, _, _)
RecordMembers(uf, utm, members, i, ccName, key, team) ==
    IF i > Len(members) THEN [uf |-> uf, utm |-> utm]
    ELSE LET username == members[i] IN
         RecordMembers(
            UserFinalPut(uf, username,
                         UserAssignment(username, ccName, key, team.Slug)),
            MapPut(utm, username,
                   Append(MapGet(utm, username, <<>>), <<key, team.Slug>>)),
            members, i + 1, ccName, key, team)

\* One iteration of the team loop (manager.go 256-296).
ProcessTeam(st, sc, md, maps, dir, memFail, key, team) ==
    IF st.err THEN st
    ELSE LET cc == costCenterForTeam(st.nc, sc, md, maps, key, team) IN
    IF ~cc.ok THEN [st EXCEPT !.nc = cc.cache,
                              !.processed = Append(@, <<key, team.Slug>>)]
    ELSE LET ms == fetchTeamMembers(st.mc, sc, key, team.Slug, dir, memFail) IN
    IF ms.err THEN [st EXCEPT !.nc = cc.cache, !.err = TRUE]
    ELSE IF Len(ms.members) = 0
    THEN [st EXCEPT !.nc = cc.cache, !.mc = ms.cache,
                    !.processed = Append(@, <<key, team.Slug>>)]
    ELSE LET r == RecordMembers(st.uf, st.utm, ms.members, 1, cc.name, key, team) IN
         [st EXCEPT !.nc = cc.cache, !.mc = ms.cache, !.uf = r.uf, !.utm = r.utm,
                    !.processed = Append(@, <<key, team.Slug>>)]

\* The two nested loops over allTeams in the order `order` of its keys.
RECURSIVE ProcessAll(_, _, _, _, _, _, _, _, _)
ProcessAll(st, sc, md, maps, dir, memFail, allTeams, order, pos) ==
    \* pos = <<index into order, index into the teams of that key>>
    IF pos[1] > Len(order) THEN st
    ELSE LET key == order[pos[1]]
             teams == allTeams[key] IN
         IF pos[2] > Len(teams)
         THEN ProcessAll(st, sc, md, maps, dir, memFail, allTeams, order,
                         <<pos[1] + 1, 1>>)
         ELSE ProcessAll(ProcessTeam(st, sc, md, maps, dir, memFail, key,
                                     teams[pos[2]]),
                         sc, md, maps, dir, memFail, allTeams, order,
                         <<pos[1], pos[2] + 1>>)

\* Convert userFinal to costCenter -> []UserAssignment, ranging over userFinal
\* in the order `order` of its keys (manager.go 326-330).
RECURSIVE GroupByCostCenter(_, _, _, _)
GroupByCostCenter(uf, order, i, acc) ==
    IF i > Len(order) THEN acc
    ELSE LET ua == uf[order[i]] IN
         GroupByCostCenter(uf, order, i + 1,
            MapPut(acc, ua.CostCenter,
                   Append(MapGet(acc, ua.CostCenter, <<>>), ua)))

-----------------------------------------------------------------------------
\* Configuration and remote states the runs start from.

\* config.teams.team_mappings (manual mode): team key -> cost center name.
Mappings ==
    [k \in {"org1/team-a", "org2/team-a", "team-a"} |->
        IF k = "org2/team-a" THEN "cc-y" ELSE "cc-x"]

\* Member listings a team can have (logins as the remote returns them).
MemberLists == {<<>>, <<"alice">>, <<"bob">>, <<"alice", "bob">>,
                <<"bob", "", "bob">>}

Legacy == "legacy"

Users == {"alice", "bob", "dave"}

\* Client.ccCache: nil, or a cache holding these valid entries.
NoCache == [attached |-> FALSE, entries |-> EmptyMap]

\* Go's string order on the strings the model sorts (sort.Strings).
StringOrder ==
    <<"[enterprise team] Team A", "[enterprise team] Team B",
      "[org team] org1/Team A", "[org team] org1/Team B",
      "[org team] org2/Team A", "alice", "bob", "cc-x", "cc-y", "dave">>

SortStrings(S) == SelectSeq(StringOrder, LAMBDA x : x \in S)

IdFor(name) == "id:" \o name

\* The cost center name the configuration gives team <<key, slug>>, if any.
NameOfTeam(sc, md, key, team) ==
    IF md = "auto"
    THEN IF sc = "enterprise" THEN "[enterprise team] " \o team.Name
         ELSE "[org team] " \o key \o "/" \o team.Name
    ELSE IF md = "manual"
    THEN MapGet(Mappings, TeamKey(sc, key, team.Slug), None)
    ELSE None

TeamOf(ref) == CHOOSE t \in Range(RemoteTeams(ref[1])) : t.Slug = ref[2]

\* All main-run variables at rest (used while only the batch loop runs).
RunAtRest ==
    /\ pc = "start" /\ err = None
    /\ membersCache = EmptyMap /\ ccNameCache = EmptyMap
    /\ processed = <<>> /\ userFinal = EmptyMap /\ userTeamMap = EmptyMap
    /\ assignments = EmptyMap /\ ccMap = EmptyMap /\ newlyCreated = {}
    /\ idBased = EmptyMap /\ results = EmptyMap /\ removedResults = EmptyMap
    /\ pending = {}
    /\ createCalls = {} /\ budgetCalls = {} /\ addCalls = EmptyMap
    /\ removeCalls = EmptyMap /\ ensureLog = {} /\ addLog = {} /\ removeLog = {}
    /\ fails = 0 /\ failed = FALSE

BatchAtRest == bToAdd = <<>> /\ bI = 0 /\ bResults = EmptyMap /\ bSent = <<>>

\* The component-level runs are not in use.
EnsureAtRest == eNames = <<>> /\ eRuns = <<>> /\ remoteInactive = {}

BudgetsAtRest ==
    /\ budgetLog = <<>> /\ bmProducts = EmptyMap /\ bmUnavailable = FALSE
    /\ bmLog = <<>> /\ bmCalls = 0

\* No doJSON call is followed on its own.
CallAtRest ==
    /\ dest = FALSE /\ attempt = 0 /\ callPc = "idle" /\ callLog = <<>>
    /\ callRet = [resp |-> FALSE, err |-> [kind |-> "pending"]] /\ now = 0

\* No cache is followed on its own.
CacheAtRest ==
    /\ data = [Version |-> 0] /\ file = [exists |-> FALSE]
    /\ clock = 0 /\ lastOp = [op |-> "none"]

\* The team loop is not followed step by step.
MemoAtRest == memoLog = <<>>

\* The components that only their own specification follows.
\* No listing of the cost centers is followed on its own.
ListAtRest == listLog = <<>>

\* No concurrent callers of the cache are followed.
LockAtRest == mu = {} /\ thr = <<>> /\ opLog = <<>>

\* findMatchingRepos is not followed on its own.
MatchAtRest == matchLog = <<>>

AuxAtRest == MemoAtRest /\ ListAtRest /\ LockAtRest /\ MatchAtRest

ComponentsAtRest ==
    EnsureAtRest /\ BudgetsAtRest /\ CallAtRest /\ CacheAtRest /\ AuxAtRest

\* No repository-based run.
RepoAtRest ==
    /\ flow = "teams" /\ repoMappings = <<>> /\ allRepos = <<>>
    /\ remoteRepo = EmptyMap /\ remoteRepo0 = EmptyMap /\ activeCCs = EmptyMap
    /\ rI = 0 /\ mappingResults = <<>> /\ repoCalls = {}

\* Build-only runs: every scope, mode, organization list and member listing.
InitBuild ==
    /\ scope \in {"organization", "enterprise"}
    /\ mode \in {"auto", "manual", "bogus"}
    /\ orgs \in IF scope = "enterprise" THEN {<<>>}
                ELSE {<<>>, <<"org1">>, <<"org1", "org2">>}
    /\ mappings = Mappings
    /\ autoCreate = FALSE /\ removeUsers = FALSE /\ createBudgets = FALSE
    /\ runMode = "plan" /\ assignCheckCurrentCC = FALSE
    /\ remoteTeamMembers \in [TeamRefs(ScopeKeys(scope, orgs)) -> MemberLists]
    /\ remoteCC = EmptyMap /\ remoteMember = [u \in {} |-> None]
    /\ remoteCC0 = remoteCC /\ remoteMember0 = remoteMember
    /\ ccCache = NoCache
    /\ RunAtRest /\ BatchAtRest /\ RepoAtRest /\ ComponentsAtRest

-----------------------------------------------------------------------------
\* SyncTeamAssignments, phase by phase.

BuildState0 ==
    [uf |-> EmptyMap, utm |-> EmptyMap, mc |-> membersCache, nc |-> ccNameCache,
     processed |-> <<>>, err |-> FALSE]

\* Variables the build phase leaves alone.
SyncVars == <<ccMap, newlyCreated, idBased, results, removedResults, pending>>
LogVars == <<createCalls, budgetCalls, addCalls, removeCalls, ensureLog, addLog,
             removeLog>>
ConfigVars == <<scope, mode, orgs, mappings, autoCreate, removeUsers,
                createBudgets, runMode, assignCheckCurrentCC>>
RemoteVars == <<remoteTeamMembers, remoteCC, remoteMember, remoteCC0,
                remoteMember0, ccCache>>
BatchVars == <<bToAdd, bI, bResults, bSent>>
RepoVars == <<flow, repoMappings, allRepos, remoteRepo, remoteRepo0, activeCCs,
              rI, mappingResults, repoCalls>>
EnsureVars == <<eNames, eRuns, remoteInactive>>
BudgetMgrVars == <<bmProducts, bmUnavailable, bmLog, bmCalls>>
CallVars == <<dest, attempt, callPc, callLog, callRet, now>>
CacheVars == <<data, file, clock, lastOp>>
MemoVars == <<memoLog>>
ListVars == <<listLog>>
LockVars == <<mu, thr, opLog>>
MatchVars == <<matchLog>>
AuxVars == <<MemoVars, ListVars, LockVars, MatchVars>>
ComponentVars == <<EnsureVars, BudgetMgrVars, budgetLog, CallVars, CacheVars, AuxVars>>

\* Mutant: the sources are visited in the order of the configuration.
KeyOrders_Config(sc, os) == {IF sc = "enterprise" THEN <<Enterprise>> ELSE os}

\* The orders in which `for orgOrEnterprise, teams := range allTeams`
\* (manager.go 246) can visit the keys of the map allTeams.
KeyOrders(sc, os) == Orders(ScopeKeys(sc, os))

\* Mutant: SyncTeamAssignments goes on after a failed build.
AfterBuildError_GoOn(e) == "provision"

\* Where SyncTeamAssignments is after BuildTeamAssignments returned error e
\* (manager.go 411-414: return nil, err).
AfterBuildError(e) == "done"

\* assignments, err := m.BuildTeamAssignments() and the two early returns of
\* SyncTeamAssignments that follow it (manager.go 227-337, 411-418).
BuildTeamAssignments ==
    /\ pc = "start" /\ flow = "teams"
    /\ \/ \* GetEnterpriseTeams / GetOrgTeams fails for one of the sources
          /\ ScopeKeys(scope, orgs) # {}
          /\ fails < MaxFail
          /\ fails' = fails + 1 /\ failed' = TRUE
          /\ err' = "fetching teams" /\ pc' = AfterBuildError("fetching teams")
          /\ UNCHANGED <<membersCache, ccNameCache, processed, userFinal,
                         userTeamMap, assignments>>
       \/ \E order \in KeyOrders(scope, orgs),
             memFail \in TeamRefs(ScopeKeys(scope, orgs)) \cup {NoRef} :
            LET allTeams == fetchAllTeams(scope, orgs)
                st == ProcessAll(BuildState0, scope, mode, mappings,
                                 remoteTeamMembers, memFail, allTeams, order,
                                 <<1, 1>>)
            IN /\ memFail # NoRef => fails < MaxFail /\ st.err
               /\ membersCache' = st.mc /\ ccNameCache' = st.nc
               /\ processed' = st.processed
               /\ IF st.err
                  THEN /\ fails' = fails + 1 /\ failed' = TRUE
                       /\ err' = "fetching members"
                       /\ pc' = AfterBuildError("fetching members")
                       /\ UNCHANGED <<userFinal, userTeamMap, assignments>>
                  ELSE /\ UNCHANGED <<fails, failed, err>>
                       /\ userFinal' = st.uf /\ userTeamMap' = st.utm
                       /\ \E ordU \in Orders(DOMAIN st.uf) :
                            assignments' = GroupByCostCenter(st.uf, ordU, 1, EmptyMap)
                       /\ pc' = IF DOMAIN st.uf = {} THEN "done" ELSE "provision"
    /\ UNCHANGED <<ConfigVars, RemoteVars, SyncVars, LogVars, BatchVars, RepoVars, ComponentVars>>

NextBuild == BuildTeamAssignments

SpecBuild == InitBuild /\ [][NextBuild]_vars

-----------------------------------------------------------------------------
\* The team loop of BuildTeamAssignments one team per step, over a listing
\* in which a team can come more than once, while the remote memberships
\* change between the steps.

\* At most this many teams are looked up in one run.
MaxLookups == 3

\* Member listings of the teams in these runs.
MemoLists == {<<"alice">>, <<"bob", "">>}

InitMemo ==
    /\ scope \in {"organization", "enterprise"}
    /\ mode \in {"auto", "manual", "bogus"}
    /\ orgs = IF scope = "enterprise" THEN <<>> ELSE <<"org1", "org2">>
    /\ mappings = Mappings
    /\ autoCreate = FALSE /\ removeUsers = FALSE /\ createBudgets = FALSE
    /\ runMode = "plan" /\ assignCheckCurrentCC = FALSE
    /\ remoteTeamMembers \in [TeamRefs(ScopeKeys(scope, orgs)) -> MemoLists]
    /\ remoteCC = EmptyMap /\ remoteMember = [u \in {} |-> None]
    /\ remoteCC0 = remoteCC /\ remoteMember0 = remoteMember
    /\ ccCache = NoCache
    /\ RunAtRest /\ BatchAtRest /\ RepoAtRest
    /\ EnsureAtRest /\ BudgetsAtRest /\ CallAtRest /\ CacheAtRest
    /\ ListAtRest /\ LockAtRest /\ MatchAtRest
    /\ memoLog = <<>>

\* One iteration of the team loop (manager.go 256-296) for a team of the
\* listing: costCenterForTeam, then fetchTeamMembers when the name resolved.
\* A failed member fetch ends the run (263-266).
LookupTeam ==
    /\ pc = "start" /\ Len(memoLog) < MaxLookups
    /\ \E key \in ScopeKeys(scope, orgs) :
       \E team \in Range(RemoteTeams(key)), fetchFails \in BOOLEAN :
         LET ref == <<key, team.Slug>>
             teamKey == TeamKey(scope, key, team.Slug)
             cc == costCenterForTeam(ccNameCache, scope, mode, mappings, key, team)
             fetched == cc.ok /\ teamKey \notin DOMAIN membersCache
             st0 == [uf |-> userFinal, utm |-> userTeamMap, mc |-> membersCache,
                     nc |-> ccNameCache, processed |-> processed, err |-> FALSE]
             st == ProcessTeam(st0, scope, mode, mappings, remoteTeamMembers,
                               IF fetchFails THEN ref ELSE NoRef, key, team)
         IN /\ fetchFails => fetched /\ fails < MaxFail
            /\ membersCache' = st.mc /\ ccNameCache' = st.nc
            /\ processed' = st.processed
            /\ userFinal' = st.uf /\ userTeamMap' = st.utm
            /\ fails' = IF st.err THEN fails + 1 ELSE fails
            /\ failed' = (failed \/ st.err)
            /\ err' = IF st.err THEN "fetching members" ELSE err
            /\ pc' = IF st.err THEN AfterBuildError("fetching members") ELSE pc
            /\ memoLog' = Append(memoLog,
                 [ref |-> ref, teamKey |-> teamKey,
                  ok |-> cc.ok, name |-> cc.name,
                  nameHit |-> teamKey \in DOMAIN ccNameCache,
                  fetched |-> fetched, failed |-> st.err,
                  members |-> IF cc.ok /\ ~st.err THEN st.mc[teamKey] ELSE <<>>,
                  remote |-> FilterLogins(remoteTeamMembers[ref])])
    /\ UNCHANGED <<ConfigVars, RemoteVars, assignments, SyncVars, LogVars,
                   BatchVars, RepoVars, EnsureVars, BudgetMgrVars, budgetLog,
                   CallVars, CacheVars, ListVars, LockVars, MatchVars>>

\* Somebody changes the members of a team while the run goes on.
Drift ==
    /\ pc = "start" /\ memoLog # <<>>
    /\ \E ref \in DOMAIN remoteTeamMembers, ms \in MemoLists :
         /\ remoteTeamMembers[ref] # ms
         /\ remoteTeamMembers' = [remoteTeamMembers EXCEPT ![ref] = ms]
    /\ UNCHANGED <<ConfigVars, remoteCC, remoteMember, remoteCC0, remoteMember0,
                   ccCache, pc, err, membersCache, ccNameCache, processed,
                   userFinal, userTeamMap, assignments, SyncVars, LogVars,
                   fails, failed, BatchVars, RepoVars, EnsureVars,
                   BudgetMgrVars, budgetLog, CallVars, CacheVars, MemoVars,
                   ListVars, LockVars, MatchVars>>

NextMemo == LookupTeam \/ Drift

SpecMemo == InitMemo /\ [][NextMemo]_vars

\* ccCache.Get / ccCache.Set as the client uses them (nil cache: no-ops).
CacheHit(c, name) == c.attached /\ name \in DOMAIN c.entries

CacheSet(c, name, id) ==
    IF c.attached THEN [c EXCEPT !.entries = MapPut(@, name, id)] ELSE c

RECURSIVE CacheSetAll(_, _, _)
CacheSetAll(c, active, names) ==
    IF names = {} THEN c
    ELSE LET n == CHOOSE x \in names : TRUE IN
         CacheSetAll(CacheSet(c, n, active[n]), active, names \ {n})

\* GetAllActiveCostCenters against remote r (part_003 65-85): name -> id,
\* every entry also written to the cache.
GetAllActiveCostCenters(r, c, fail) ==
    IF fail THEN [err |-> TRUE, active |-> EmptyMap, cache |-> c]
    ELSE [err |-> FALSE, active |-> r, cache |-> CacheSetAll(c, r, DOMAIN r)]

\* Mutant: the fallback listing never finds the name.
findCostCenterByName_Never(es, name, listFails) ==
    [es EXCEPT !.err = TRUE, !.lists = @ + 1]

\* findCostCenterByName (part_003 190-200).
findCostCenterByName(es, name, listFails) ==
    LET l == GetAllActiveCostCenters(es.remote, es.cache, listFails) IN
    IF l.err
    THEN [es EXCEPT !.err = TRUE, !.fails = @ + 1, !.failed = TRUE,
                    !.lists = @ + 1]
    ELSE IF name \in DOMAIN l.active
    THEN [es EXCEPT !.cache = l.cache, !.id = l.active[name],
                    !.how = "conflict-found", !.lists = @ + 1]
    ELSE [es EXCEPT !.cache = l.cache, !.err = TRUE, !.lists = @ + 1]

\* The id named by the body of a 409 answer: that of the cost center, active
\* or not, that holds the name.
ExistingId(es, name) ==
    IF name \in DOMAIN es.remote THEN es.remote[name] ELSE IdFor(name)

\* CreateCostCenter (part_003 118-160).  o is the way the remote answers:
\* "ok", "fail" (the POST fails), "nouuid" (a conflict body without the
\* UUID), "nouuid-listfail" (the same, and the fallback listing fails).
CreateCostCenter(es, name, o) ==
    IF CacheHit(es.cache, name)
    THEN [es EXCEPT !.id = es.cache.entries[name], !.how = "cache"]
    ELSE LET posted == [es EXCEPT !.createCalls = @ \cup {name}] IN
    IF o = "fail"
    THEN [posted EXCEPT !.err = TRUE, !.fails = @ + 1, !.failed = TRUE]
    ELSE IF name \notin DOMAIN es.remote \cup es.inactive
    THEN \* 201 Created
         [posted EXCEPT !.remote = MapPut(@, name, IdFor(name)),
                        !.cache = CacheSet(@, name, IdFor(name)),
                        !.id = IdFor(name), !.how = "created"]
    ELSE \* 409 Conflict
         IF o = "ok"
         THEN [posted EXCEPT !.cache = CacheSet(@, name, ExistingId(es, name)),
                             !.id = ExistingId(es, name),
                             !.how = "conflict-uuid", !.failed = TRUE]
         ELSE findCostCenterByName([posted EXCEPT !.failed = TRUE], name,
                                   o = "nouuid-listfail")

\* CreateCostCenterWithPreload (part_003 165-186).
CreateCostCenterWithPreload(es, name, o) ==
    IF name \in DOMAIN es.activeMap
    THEN [es EXCEPT !.id = es.activeMap[name], !.how = "preload"]
    ELSE IF CacheHit(es.cache, name)
    THEN [es EXCEPT !.id = es.cache.entries[name], !.how = "cache",
                    !.activeMap = MapPut(@, name, es.cache.entries[name])]
    ELSE LET r == CreateCostCenter(es, name, o) IN
         IF r.err THEN r ELSE [r EXCEPT !.activeMap = MapPut(@, name, r.id)]

\* Mutant: the loop never takes the preload map's answer.
PreloadHit_Never(activeMap, name) == FALSE

\* The preload hit test of the loop (manager.go 369: activeMap[name]).
PreloadHit(activeMap, name) == name \in DOMAIN activeMap

\* Mutant: a name that cannot be resolved is mapped to the empty id.
Fallback_Empty(name) == ""

\* The id used for a name that could be neither created nor found
\* (manager.go 380: ccMap[name] = name).
Fallback(name) == name

\* One iteration of the loop of EnsureCostCentersExist (manager.go 368-387).
EnsureName(es0, name, o) ==
    LET es == [es0 EXCEPT !.err = FALSE, !.id = "", !.how = ""] IN
    IF PreloadHit(es.activeMap, name)
    THEN [es EXCEPT !.ccMap = MapPut(@, name, es.activeMap[name]),
                    !.log = @ \cup {[name |-> name, how |-> "preload",
                                     id |-> es.activeMap[name]]}]
    ELSE LET r == CreateCostCenterWithPreload(es, name, o) IN
         IF r.err
         THEN [r EXCEPT !.ccMap = MapPut(@, name, Fallback(name)),
                        !.log = @ \cup {[name |-> name, how |-> "error",
                                         id |-> Fallback(name)]}]
         ELSE [r EXCEPT !.ccMap = MapPut(@, name, r.id),
                        !.newly = @ \cup {r.id},
                        !.log = @ \cup {[name |-> name, how |-> r.how,
                                         id |-> r.id]}]

RECURSIVE EnsureLoop(_, _, _, _)
EnsureLoop(es, names, i, out) ==
    IF i > Len(names) THEN es
    ELSE EnsureLoop(EnsureName(es, names[i], out[names[i]]), names, i + 1, out)

\* The preload of EnsureCostCentersExist (manager.go 354-361): one listing;
\* when it fails the preload map is empty and the run goes on.
EnsurePreload(es, preloadFails) ==
    LET l == GetAllActiveCostCenters(es.remote, es.cache, preloadFails) IN
    IF l.err
    THEN [es EXCEPT !.activeMap = EmptyMap, !.fails = @ + 1, !.failed = TRUE,
                    !.lists = @ + 1]
    ELSE [es EXCEPT !.activeMap = l.active, !.cache = l.cache, !.lists = @ + 1]

\* EnsureCostCentersExist(ccNames) with auto-create on (manager.go 352-404).
EnsureCostCentersExist(es, names, preloadFails, out) ==
    EnsureLoop(EnsurePreload(es, preloadFails), names, 1, out)

\* Mutant: the names are mapped to the ids the remote would give them.
IdentityMap_Ids(names) == [n \in Range(names) |-> IdFor(n)]

IdentityMap(names) == [n \in Range(names) |-> n]

CreateOutcomes == {"ok", "fail", "nouuid", "nouuid-listfail"}

\* Mutant: the preview is treated as an apply run.
IsPlan_Never(m) == FALSE

\* Whether the run is a preview (manager.go 431 and 472: mode == "plan").
IsPlan(m) == m = "plan"

\* Provisioning step of SyncTeamAssignments (manager.go 420-448).
Provision ==
    /\ pc = "provision"
    /\ LET ccNames == SortStrings(DOMAIN assignments) IN
       IF IsPlan(runMode) \/ ~autoCreate
       THEN /\ ccMap' = IdentityMap(ccNames)
            /\ newlyCreated' = {}
            /\ pc' = "convert"
            /\ UNCHANGED <<remoteCC, ccCache, ensureLog, createCalls, fails,
                           failed>>
       ELSE \E preloadFails \in BOOLEAN, out \in [Range(ccNames) -> CreateOutcomes] :
              LET es0 == [remote |-> remoteCC, cache |-> ccCache,
                          activeMap |-> EmptyMap, ccMap |-> EmptyMap,
                          newly |-> {}, log |-> {}, createCalls |-> {},
                          fails |-> fails, failed |-> failed, err |-> FALSE,
                          id |-> "", how |-> "", lists |-> 0, inactive |-> {}]
                  es == EnsureCostCentersExist(es0, ccNames, preloadFails, out)
              IN /\ es.fails <= MaxFail
                 /\ es.fails = fails + Cardinality({n \in Range(ccNames) : out[n] \in {"fail", "nouuid-listfail"}})
                              + (IF preloadFails THEN 1 ELSE 0)
                 /\ remoteCC' = es.remote /\ ccCache' = es.cache
                 /\ ccMap' = es.ccMap /\ newlyCreated' = es.newly
                 /\ ensureLog' = es.log /\ createCalls' = es.createCalls
                 /\ fails' = es.fails /\ failed' = es.failed
                 /\ pc' = IF createBudgets /\ es.newly # {} THEN "budgets"
                          ELSE "convert"
    /\ UNCHANGED <<ConfigVars, remoteTeamMembers, remoteMember, remoteCC0,
                   remoteMember0, err, membersCache, ccNameCache, processed,
                   userFinal, userTeamMap, assignments, idBased, results,
                   removedResults, pending, budgetCalls, addCalls, removeCalls,
                   addLog, removeLog, BatchVars, RepoVars, ComponentVars>>


\* config budget products: product -> enabled.
BudgetProducts == [p \in {"actions", "copilot"} |-> p = "actions"]

EnabledProducts == {p \in DOMAIN BudgetProducts : BudgetProducts[p]}

\* createBudgetsForNewCCs (manager.go 699-747) over the new ids in the order
\* ccs and the products in the order ps; out gives the remote's answer to each
\* CreateProductBudget call.  bs = [calls, fails, disabled].
RECURSIVE BudgetLoop(_, _, _, _, _, _)
BudgetLoop(bs, ccs, ps, i, j, out) ==
    IF i > Len(ccs) \/ bs.disabled THEN bs
    ELSE IF j > Len(ps) THEN BudgetLoop(bs, ccs, ps, i + 1, 1, out)
    ELSE IF ~BudgetProducts[ps[j]] THEN BudgetLoop(bs, ccs, ps, i, j + 1, out)
    ELSE LET call == <<ccs[i], ps[j]>>
             called == [bs EXCEPT !.calls = @ \cup {call},
                                  !.log = Append(@, [cc |-> ccs[i],
                                                     product |-> ps[j],
                                                     outcome |-> out[call]])]
         IN
         IF out[call] = "unavailable"
         THEN [called EXCEPT !.fails = @ + 1, !.disabled = TRUE]
         ELSE IF out[call] = "error"
         THEN BudgetLoop([called EXCEPT !.fails = @ + 1], ccs, ps, i, j + 1, out)
         ELSE BudgetLoop(called, ccs, ps, i, j + 1, out)

CreateBudgets ==
    /\ pc = "budgets"
    /\ \E ccs \in Orders(newlyCreated), ps \in Orders(DOMAIN BudgetProducts),
          out \in [newlyCreated \X EnabledProducts -> {"ok", "error", "unavailable"}] :
         LET bs == BudgetLoop([calls |-> {}, fails |-> 0, disabled |-> FALSE,
                               log |-> <<>>], ccs, ps, 1, 1, out)
         IN /\ fails + bs.fails <= MaxFail
            /\ \A c \in DOMAIN out : out[c] # "ok" => c \in bs.calls
            /\ budgetCalls' = bs.calls
            /\ budgetLog' = bs.log
            /\ fails' = fails + bs.fails
            /\ failed' = (failed \/ bs.fails > 0)
    /\ pc' = "convert"
    /\ UNCHANGED <<ConfigVars, RemoteVars, err, membersCache, ccNameCache,
                   processed, userFinal, userTeamMap, assignments, SyncVars,
                   createCalls, addCalls, removeCalls, ensureLog, addLog,
                   removeLog, BatchVars, RepoVars, EnsureVars, BudgetMgrVars,
                   CallVars, CacheVars, AuxVars>>

\* The `seen` filter of manager.go 454-460.
RECURSIVE Dedup(_, _, _)
Dedup(uas, i, acc) ==
    IF i > Len(uas) THEN acc
    ELSE IF \E k \in DOMAIN acc : acc[k] = uas[i].Username
    THEN Dedup(uas, i + 1, acc)
    ELSE Dedup(uas, i + 1, Append(acc, uas[i].Username))

\* idBased: ccID -> usernames, ranging over assignments in the order `order`
\* (manager.go 450-461).
RECURSIVE ToIdBased(_, _, _, _, _)
ToIdBased(as, cm, order, i, acc) ==
    IF i > Len(order) THEN acc
    ELSE LET ccID == cm[order[i]] IN
         ToIdBased(as, cm, order, i + 1,
                   MapPut(acc, ccID,
                          MapGet(acc, ccID, <<>>) \o Dedup(as[order[i]], 1, <<>>)))

\* Mutant: an apply run goes to the removal pass before the additions.
AfterConvert_RemoveFirst(plan) == IF plan THEN "done" ELSE "remove"

\* Where SyncTeamAssignments is once idBased is built: a plan run returns
\* (manager.go 470-481), an apply run calls BulkUpdateCostCenterAssignments
\* (manager.go 483-489).
AfterConvert(plan) == IF plan THEN "done" ELSE "add"

\* manager.go 450-481: build idBased; a plan run returns here.
Convert ==
    /\ pc = "convert"
    /\ \E order \in Orders(DOMAIN assignments) :
         idBased' = ToIdBased(assignments, ccMap, order, 1, EmptyMap)
    /\ pc' = AfterConvert(IsPlan(runMode))
    /\ pending' = IF IsPlan(runMode) THEN {} ELSE DOMAIN idBased'
    /\ UNCHANGED <<ConfigVars, RemoteVars, err, membersCache, ccNameCache,
                   processed, userFinal, userTeamMap, assignments, ccMap,
                   newlyCreated, results, removedResults, LogVars, fails,
                   failed, BatchVars, RepoVars, ComponentVars>>


\* The end index of the batch that starts at offset i of n subjects
\* (part_003 276-279).
BatchEnd(i, n) == IF i + batchSize > n THEN n ELSE i + batchSize

\* The batches the loop of part_003 275-297 cuts toAdd into.
RECURSIVE Batches(_, _)
Batches(toAdd, i) ==
    IF i >= Len(toAdd) THEN <<>>
    ELSE <<SubSeq(toAdd, i + 1, BatchEnd(i, Len(toAdd)))>>
         \o Batches(toAdd, BatchEnd(i, Len(toAdd)))

\* GetCostCenterMembers(id) (part_003 100-113): the users of the cost center,
\* a 404 for an id the remote does not know.
CostCenterKnown(r, id) == \E n \in DOMAIN r : r[n] = id

MembersOf(rm, id) == {u \in DOMAIN rm : rm[u] = id}

\* Mutant: a failed lookup is taken for a membership.
CheckUserCostCenterMembership_Strict(rm, u, lookupFails) == IF lookupFails THEN "unknown" ELSE rm[u]

\* CheckUserCostCenterMembership(u) (part_003 373-391): the membership, or
\* None when the user has none or the lookup failed.
CheckUserCostCenterMembership(rm, u, lookupFails) ==
    IF lookupFails THEN None ELSE rm[u]

\* Mutant: no subject is recognised as a member of the target.
AlreadyMember_Never(memberSet, u) == FALSE

\* Whether the subject is in the set of current members of the target cost
\* center (part_003 244: memberSet[u]).
AlreadyMember(memberSet, u) == u \in memberSet

\* Mutant: the current membership is never consulted.
ChecksMembership_Never(ignoreCurrentCC) == FALSE

\* Whether AddUsersToCostCenter consults the current membership of a subject
\* (part_003 250).
ChecksMembership(ignoreCurrentCC) == ~ignoreCurrentCC

\* The classification loop of AddUsersToCostCenter (part_003 243-260).
\* as = [toAdd, results, looked].
RECURSIVE Classify(_, _, _, _, _, _, _)
Classify(as, usernames, i, memberSet, rm, ignoreCurrentCC, lookFail) ==
    IF i > Len(usernames) THEN as
    ELSE LET u == usernames[i] IN
         IF AlreadyMember(memberSet, u)
         THEN Classify([as EXCEPT !.results = MapPut(@, u, TRUE)], usernames,
                       i + 1, memberSet, rm, ignoreCurrentCC, lookFail)
         ELSE IF ChecksMembership(ignoreCurrentCC)
         THEN LET mem == CheckUserCostCenterMembership(rm, u, u \in lookFail)
                  as1 == [as EXCEPT !.looked = @ \cup {u}] IN
              IF mem # None
              THEN Classify([as1 EXCEPT !.results = MapPut(@, u, FALSE)],
                            usernames, i + 1, memberSet, rm, ignoreCurrentCC,
                            lookFail)
              ELSE Classify([as1 EXCEPT !.toAdd = Append(@, u)], usernames,
                            i + 1, memberSet, rm, ignoreCurrentCC, lookFail)
         ELSE Classify([as EXCEPT !.toAdd = Append(@, u)], usernames, i + 1,
                       memberSet, rm, ignoreCurrentCC, lookFail)

\* The batch loop (part_003 275-297): bs = [results, rm]; batch k fails when
\* k \in batchFail; a batch that succeeds moves its subjects to the cost center.
RECURSIVE SendBatches(_, _, _, _, _)
SendBatches(bs, batches, k, id, batchFail) ==
    IF k > Len(batches) THEN bs
    ELSE LET ok == k \notin batchFail
             res == [u \in DOMAIN bs.results \cup Range(batches[k]) |->
                        IF u \in Range(batches[k]) THEN ok ELSE bs.results[u]]
             rm == IF ok
                   THEN [u \in DOMAIN bs.rm |->
                            IF u \in Range(batches[k]) THEN id ELSE bs.rm[u]]
                   ELSE bs.rm
         IN SendBatches([results |-> res, rm |-> rm], batches, k + 1, id,
                        batchFail)

\* The result map BulkUpdateCostCenterAssignments records for a cost center
\* whose AddUsersToCostCenter call returned an error (part_003 317-323).
AllFalse(usernames) == [u \in Range(usernames) |-> FALSE]

\* AddUsersToCostCenter(id, usernames, ignoreCurrentCC) (part_003 229-300)
\* followed by the error handling of its caller (part_003 316-324).
AddUsersToCostCenter(r, rm, id, usernames, ignoreCurrentCC, getFails, lookFail, batchFail) ==
    IF getFails \/ ~CostCenterKnown(r, id)
    THEN [err |-> TRUE, results |-> AllFalse(usernames), rm |-> rm,
          batches |-> <<>>, looked |-> {}]
    ELSE LET c == Classify([toAdd |-> <<>>, results |-> EmptyMap, looked |-> {}],
                           usernames, 1, MembersOf(rm, id), rm,
                           ignoreCurrentCC, lookFail)
             batches == Batches(c.toAdd, 0)
             b == SendBatches([results |-> c.results, rm |-> rm], batches, 1,
                              id, batchFail)
         IN [err |-> FALSE, results |-> b.results, rm |-> b.rm,
             batches |-> batches, looked |-> c.looked]

\* ignoreCurrentCC := !assignCheckCurrentCC (cmd/cache.go 479).
IgnoreCurrentCC == ~assignCheckCurrentCC

\* Mutant: the loop ends at the first cost center whose call failed.
AfterAdd_StopOnError(rest, callFailed) == IF rest = {} \/ callFailed THEN "remove" ELSE "add"

\* Where the run is after one cost center of the loop of
\* BulkUpdateCostCenterAssignments; rest are the cost centers still to visit
\* (part_003 316-324: the error is logged and the loop goes on).
AfterAdd(rest, callFailed) == IF rest = {} THEN "remove" ELSE "add"

\* One iteration of the loop of BulkUpdateCostCenterAssignments
\* (part_003 310-333), for one cost center of idBased.
AddUsers ==
    /\ pc = "add" /\ pending # {}
    /\ \E id \in pending :
       \E getFails \in BOOLEAN, lookFail \in SUBSET Range(idBased[id]),
          batchFail \in SUBSET DOMAIN Batches(idBased[id], 0) :
         LET a == AddUsersToCostCenter(remoteCC, remoteMember, id, idBased[id],
                                       IgnoreCurrentCC, getFails, lookFail,
                                       batchFail)
             injected == (IF getFails THEN 1 ELSE 0) + Cardinality(lookFail)
                         + Cardinality(batchFail)
             sent == Range(Concat(a.batches))
         IN /\ fails + injected <= MaxFail
            \* only failures of calls that were made
            /\ getFails => CostCenterKnown(remoteCC, id)
            /\ lookFail \subseteq a.looked
            /\ batchFail \subseteq DOMAIN a.batches
            /\ fails' = fails + injected
            /\ failed' = (failed \/ injected > 0 \/ a.err)
            /\ results' = MapPut(results, id, a.results)
            /\ remoteMember' = a.rm
            /\ addCalls' = MapPut(addCalls, id, a.batches)
            /\ addLog' = addLog \cup
                 {[cc |-> id, user |-> u, where |-> remoteMember[u],
                   lookup |-> IF u \notin a.looked THEN "none"
                              ELSE IF u \in lookFail THEN "fail" ELSE "ok",
                   listed |-> ~a.err, sent |-> u \in sent,
                   result |-> a.results[u], after |-> a.rm[u]] :
                  u \in Range(idBased[id])}
            /\ pending' = IF pending = {id}
                          THEN {c \in DOMAIN idBased : c \notin newlyCreated}
                          ELSE pending \ {id}
            /\ pc' = AfterAdd(pending \ {id}, a.err)
    /\ UNCHANGED <<ConfigVars, remoteTeamMembers, remoteCC, remoteCC0,
                   remoteMember0, ccCache, err, membersCache, ccNameCache,
                   processed, userFinal, userTeamMap, assignments, ccMap,
                   newlyCreated, idBased, removedResults, createCalls,
                   budgetCalls, removeCalls, ensureLog, removeLog, BatchVars, RepoVars, ComponentVars>>


\* Mutant: every current member is taken as stale.
StaleUsers_All(currentMembers, expectedUsers) == SortStrings(Range(currentMembers))

\* The stale members of a cost center: current members not expected
\* (manager.go 553-564), sorted (manager.go 576).
StaleUsers(currentMembers, expectedUsers) ==
    SortStrings(Range(SelectSeq(currentMembers,
                                LAMBDA member : member \notin Range(expectedUsers))))

\* Whether handleUserRemoval issues the remove call (manager.go 584).
RemovesStale(removeUsersFlag) == removeUsersFlag

\* RemoveUsersFromCostCenter(id, usernames) (part_003 343-369).
RemoveUsersFromCostCenter(rm, id, usernames, removeFails) ==
    IF removeFails
    THEN [status |-> [u \in Range(usernames) |-> FALSE], rm |-> rm]
    ELSE [status |-> [u \in Range(usernames) |-> TRUE],
          rm |-> [u \in DOMAIN rm |->
                    IF u \in Range(usernames) /\ rm[u] = id THEN None ELSE rm[u]]]

\* One iteration of the loop of handleUserRemoval over toCheck
\* (manager.go 546-604).
CheckRemoval ==
    /\ pc = "remove" /\ pending # {}
    /\ \E id \in pending :
       \E getFails \in BOOLEAN, removeFails \in BOOLEAN :
         LET known == CostCenterKnown(remoteCC, id)
             currentMembers == SortStrings(MembersOf(remoteMember, id))
             stale == StaleUsers(currentMembers, idBased[id])
             calls == known /\ ~getFails /\ stale # <<>> /\ RemovesStale(removeUsers)
             rr == RemoveUsersFromCostCenter(remoteMember, id, stale, removeFails)
             injected == (IF getFails THEN 1 ELSE 0) + (IF removeFails THEN 1 ELSE 0)
         IN /\ fails + injected <= MaxFail
            /\ getFails => known
            /\ removeFails => calls
            /\ fails' = fails + injected
            /\ failed' = (failed \/ injected > 0 \/ ~known)
            /\ IF calls
               THEN /\ removedResults' = MapPut(removedResults, id, rr.status)
                    /\ remoteMember' = rr.rm
                    /\ removeCalls' = MapPut(removeCalls, id,
                                             Append(MapGet(removeCalls, id, <<>>), stale))
               ELSE UNCHANGED <<removedResults, remoteMember, removeCalls>>
            /\ removeLog' = IF known /\ ~getFails
                            THEN removeLog \cup
                                 {[cc |-> id, current |-> MembersOf(remoteMember, id),
                                   desired |-> Range(idBased[id]),
                                   stale |-> Range(stale),
                                   removed |-> IF ~calls THEN "none"
                                               ELSE IF removeFails THEN "fail"
                                               ELSE "ok",
                                   after |-> MembersOf(remoteMember', id)]}
                            ELSE removeLog
            /\ pending' = pending \ {id}
    /\ UNCHANGED <<ConfigVars, remoteTeamMembers, remoteCC, remoteCC0,
                   remoteMember0, ccCache, pc, err, membersCache, ccNameCache,
                   processed, userFinal, userTeamMap, assignments, ccMap,
                   newlyCreated, idBased, results, createCalls, budgetCalls,
                   addCalls, ensureLog, addLog, BatchVars, RepoVars, ComponentVars>>

\* Mutant: the removal statuses are left out of the returned results.
MergeResults_Skip(res, removed) == res

\* results[ccID][user] = ok for every removal result (manager.go 495-504).
MergeResults(res, removed) ==
    [id \in DOMAIN res \cup DOMAIN removed |->
        IF id \notin DOMAIN removed THEN res[id]
        ELSE [u \in DOMAIN MapGet(res, id, EmptyMap) \cup DOMAIN removed[id] |->
                IF u \in DOMAIN removed[id] THEN removed[id][u] ELSE res[id][u]]]

\* The end of SyncTeamAssignments (manager.go 494-506).
Merge ==
    /\ pc = "remove" /\ pending = {}
    /\ results' = IF removeUsers THEN MergeResults(results, removedResults)
                  ELSE results
    /\ pc' = "done"
    /\ UNCHANGED <<ConfigVars, RemoteVars, err, membersCache, ccNameCache,
                   processed, userFinal, userTeamMap, assignments, ccMap,
                   newlyCreated, idBased, removedResults, pending, LogVars,
                   fails, failed, BatchVars, RepoVars, ComponentVars>>

-----------------------------------------------------------------------------
\* EnsureCostCentersExist on its own: repeated calls over the same names,
\* with other actors creating cost centers between the preload and the loop.

\* Requested names of the provisioning runs.
EnsureNameLists == {<<"cc-x">>, <<"cc-x", "cc-y">>, <<"cc-y", "cc-x">>}

\* The client's cache in the provisioning runs: none (NewClient), or attached
\* by SetCache with no entry or with an entry for cc-x.
EnsureCaches ==
    {NoCache,
     [attached |-> TRUE, entries |-> EmptyMap],
     [attached |-> TRUE, entries |-> [n \in {"cc-x"} |-> IdFor(n)]]}

InitEnsure ==
    /\ scope = "organization" /\ mode = "manual" /\ orgs = <<"org1">>
    /\ mappings = Mappings
    /\ autoCreate \in BOOLEAN
    /\ removeUsers = FALSE /\ createBudgets = FALSE
    /\ runMode = "apply" /\ assignCheckCurrentCC = FALSE
    /\ remoteTeamMembers = EmptyMap
    /\ \E S \in SUBSET {"cc-x", "cc-y"} :
         remoteCC = [n \in S \cup {Legacy} |-> IdFor(n)]
    /\ remoteInactive \in {I \in SUBSET {"cc-x", "cc-y"} :
                              Cardinality(I) <= 1 /\ I \cap DOMAIN remoteCC = {}}
    /\ remoteMember = [u \in Users |-> None]
    /\ remoteCC0 = remoteCC /\ remoteMember0 = remoteMember
    /\ ccCache \in EnsureCaches
    /\ RunAtRest /\ BatchAtRest /\ RepoAtRest
    /\ eNames \in EnsureNameLists
    /\ eRuns = <<>>
    /\ BudgetsAtRest /\ CallAtRest /\ CacheAtRest /\ AuxAtRest

\* One call of EnsureCostCentersExist(eNames) (manager.go 342-405).  raced
\* are the names somebody else creates after the preload listing and before
\* the loop reaches them.  The call's outcome is appended to eRuns.
EnsureCall ==
    /\ Len(eRuns) < MaxRuns
    /\ \E preloadFails \in BOOLEAN,
          raced \in SUBSET (Range(eNames) \ (DOMAIN remoteCC \cup remoteInactive)),
          out \in [Range(eNames) -> CreateOutcomes] :
         LET es0 == [remote |-> remoteCC, inactive |-> remoteInactive,
                     cache |-> ccCache, activeMap |-> EmptyMap,
                     ccMap |-> EmptyMap, newly |-> {}, log |-> {},
                     createCalls |-> {}, fails |-> fails, failed |-> FALSE,
                     err |-> FALSE, id |-> "", how |-> "", lists |-> 0]
             p == EnsurePreload(es0, preloadFails)
             r == [p EXCEPT !.remote = [n \in DOMAIN @ \cup raced |->
                                          IF n \in raced THEN IdFor(n) ELSE @[n]]]
             es == EnsureLoop(r, eNames, 1, out)
             run == [auto |-> autoCreate, before |-> remoteCC, raced |-> raced,
                     preloadFailed |-> preloadFails, preload |-> p.activeMap,
                     out |-> out, after |-> es.remote, ccMap |-> es.ccMap,
                     newly |-> es.newly, newlyNil |-> FALSE,
                     creates |-> es.createCalls, lists |-> es.lists,
                     log |-> es.log, err |-> FALSE]
             idle == [run EXCEPT !.preload = EmptyMap, !.after = remoteCC,
                                 !.ccMap = IdentityMap(eNames), !.newly = {},
                                 !.newlyNil = TRUE, !.creates = {},
                                 !.lists = 0, !.log = {}]
         IN IF ~autoCreate
            THEN /\ ~preloadFails /\ raced = {}
                 /\ \A n \in DOMAIN out : out[n] = "ok"
                 /\ eRuns' = Append(eRuns, idle)
                 /\ UNCHANGED <<remoteCC, ccCache, fails>>
            ELSE /\ es.fails <= MaxFail
                 /\ \A n \in DOMAIN out :
                      out[n] # "ok" =>
                         /\ n \in es.createCalls
                         /\ out[n] # "fail" =>
                               n \in DOMAIN r.remote \cup remoteInactive
                 /\ eRuns' = Append(eRuns, run)
                 /\ remoteCC' = es.remote /\ ccCache' = es.cache
                 /\ fails' = es.fails
    /\ UNCHANGED <<ConfigVars, remoteTeamMembers, remoteMember, remoteCC0,
                   remoteMember0, pc, err, membersCache, ccNameCache,
                   processed, userFinal, userTeamMap, assignments, SyncVars,
                   LogVars, failed, BatchVars, RepoVars, eNames,
                   remoteInactive, BudgetMgrVars, budgetLog, CallVars,
                   CacheVars, AuxVars>>

NextEnsure == EnsureCall

SpecEnsure == InitEnsure /\ [][NextEnsure]_vars

-----------------------------------------------------------------------------
\* budgets.Manager (internal/budgets/manager.go 13-67).

\* Product tables handed to budgets.NewManager.
BudgetProductTables ==
    {BudgetProducts,
     [p \in {"actions"} |-> TRUE],
     [p \in {"actions", "copilot", "packages"} |-> p # "copilot"]}

\* The product loop of EnsureBudgetsForCostCenter (manager.go 43-66) over the
\* products in the order ps; out is the remote's answer per product.
RECURSIVE ProductLoop(_, _, _, _, _, _, _)
ProductLoop(st, products, ccID, ps, j, out, run) ==
    IF j > Len(ps) THEN st
    ELSE IF ~products[ps[j]]
    THEN ProductLoop(st, products, ccID, ps, j + 1, out, run)
    ELSE LET called == [st EXCEPT !.log = Append(@, [run |-> run, cc |-> ccID,
                                                     product |-> ps[j],
                                                     outcome |-> out[ps[j]]])]
         IN IF out[ps[j]] = "unavailable"
            THEN [called EXCEPT !.unavailable = TRUE]
            ELSE ProductLoop(called, products, ccID, ps, j + 1, out, run)

\* Mutant: the flag is not consulted on entry.
SkipsWhenUnavailable_Never(unavailable) == FALSE

\* The entry test of EnsureBudgetsForCostCenter (manager.go 37-39).
SkipsWhenUnavailable(unavailable) == unavailable

\* The runs of a budgets.Manager made by NewManager.
InitBudgets ==
    /\ flow = "budgets"
    /\ scope = "organization" /\ mode = "auto" /\ orgs = <<"org1">>
    /\ mappings = Mappings
    /\ autoCreate = FALSE /\ removeUsers = FALSE /\ createBudgets = TRUE
    /\ runMode = "apply" /\ assignCheckCurrentCC = FALSE
    /\ remoteTeamMembers = EmptyMap
    /\ remoteCC = [n \in {"cc-x", "cc-y"} |-> IdFor(n)]
    /\ remoteMember = [u \in Users |-> None]
    /\ remoteCC0 = remoteCC /\ remoteMember0 = remoteMember
    /\ ccCache = NoCache
    /\ RunAtRest /\ BatchAtRest /\ EnsureAtRest /\ CallAtRest /\ CacheAtRest
    /\ AuxAtRest
    /\ repoMappings = <<>> /\ allRepos = <<>> /\ remoteRepo = EmptyMap
    /\ remoteRepo0 = EmptyMap /\ activeCCs = EmptyMap /\ rI = 0
    /\ mappingResults = <<>> /\ repoCalls = {}
    /\ budgetLog = <<>>
    /\ bmProducts \in BudgetProductTables
    /\ bmUnavailable = FALSE /\ bmLog = <<>> /\ bmCalls = 0

\* EnsureBudgetsForCostCenter(ccID, ccName) (manager.go 36-67).
EnsureBudgetsForCostCenter ==
    /\ flow = "budgets" /\ bmCalls < MaxBudgetRuns
    /\ \E ccName \in DOMAIN remoteCC, ps \in Orders(DOMAIN bmProducts),
          out \in [DOMAIN bmProducts -> {"ok", "error", "unavailable"}] :
         LET st0 == [log |-> bmLog, unavailable |-> bmUnavailable]
             st == IF SkipsWhenUnavailable(bmUnavailable) THEN st0
                   ELSE ProductLoop(st0, bmProducts, remoteCC[ccName], ps, 1,
                                    out, bmCalls + 1)
         IN /\ \A p \in DOMAIN out :
                 out[p] # "ok" =>
                    \E i \in DOMAIN st.log :
                       st.log[i].run = bmCalls + 1 /\ st.log[i].product = p
            /\ bmLog' = st.log /\ bmUnavailable' = st.unavailable
    /\ bmCalls' = bmCalls + 1
    /\ UNCHANGED <<ConfigVars, RemoteVars, pc, err, membersCache, ccNameCache,
                   processed, userFinal, userTeamMap, assignments, SyncVars,
                   LogVars, fails, failed, BatchVars, RepoVars, EnsureVars,
                   budgetLog, bmProducts, CallVars, CacheVars, AuxVars>>

-----------------------------------------------------------------------------
\* Repository-based assignment (`assign --repo`): repository.Manager.Run.

\* A custom property value as decoded from JSON: a string, an array (whose
\* items may be strings or not), or anything else.
Str(v) == [kind |-> "string", s |-> v, items |-> <<>>]
Item(isString, v) == [str |-> isString, s |-> v]
Arr(items) == [kind |-> "array", s |-> "", items |-> items]
Other == [kind |-> "other", s |-> "", items |-> <<>>]
Prop(name, value) == [PropertyName |-> name, Value |-> value]
Repo(fullName, props) == [RepositoryFullName |-> fullName, Properties |-> props]
ExplicitMapping(cc, name, values) ==
    [CostCenter |-> cc, PropertyName |-> name, PropertyValues |-> values]

\* Repository listings of the organization.
RepoLists ==
    {<<>>,
     <<Repo("org1/r1", <<Prop("team", Str("a"))>>),
       Repo("org1/r2", <<Prop("env", Str("a")),
                         Prop("team", Arr(<<Item(FALSE, "b"), Item(TRUE, "b")>>))>>),
       Repo("", <<Prop("team", Str("a"))>>)>>,
     <<Repo("", <<Prop("team", Str("b"))>>),
       Repo("org1/r3", <<Prop("team", Other), Prop("team", Str("c"))>>)>>}

RepoNames == {"org1/r1", "org1/r2", "org1/r3"}

\* Configured explicit mappings.
RepoMappingLists ==
    {<<ExplicitMapping("cc-x", "team", <<"a">>)>>,
     <<ExplicitMapping("cc-x", "team", <<"a">>),
       ExplicitMapping("cc-y", "team", <<"b", "c">>)>>,
     <<ExplicitMapping("", "team", <<"a">>),
       ExplicitMapping("cc-y", "team", <<"a", "b">>)>>,
     <<ExplicitMapping("cc-y", "env", <<"a">>),
       ExplicitMapping("cc-y", "team", <<"a">>)>>}

\* Mutant: an array element matches whatever its type.
matchesValue_AnyItem(val, allowed) ==
    IF val.kind = "string" THEN val.s \in allowed
    ELSE IF val.kind = "array"
    THEN \E i \in DOMAIN val.items : val.items[i].s \in allowed
    ELSE FALSE

\* matchesValue (part_000 344-356).
matchesValue(val, allowed) ==
    IF val.kind = "string" THEN val.s \in allowed
    ELSE IF val.kind = "array"
    THEN \E i \in DOMAIN val.items : val.items[i].str /\ val.items[i].s \in allowed
    ELSE FALSE

\* The inner loop of findMatchingRepos: the first property of the given name
\* whose value matches ends the loop.
RECURSIVE MatchesProps(_, _, _, _)
MatchesProps(props, j, propertyName, valueSet) ==
    IF j > Len(props) THEN FALSE
    ELSE IF props[j].PropertyName # propertyName
    THEN MatchesProps(props, j + 1, propertyName, valueSet)
    ELSE IF matchesValue(props[j].Value, valueSet) THEN TRUE
    ELSE MatchesProps(props, j + 1, propertyName, valueSet)

\* The loop over repos of findMatchingRepos (part_000 327-338) from index i
\* on: a repository is appended once, when its inner loop breaks.
RECURSIVE MatchLoop(_, _, _, _, _)
MatchLoop(repos, i, propertyName, valueSet, matched) ==
    IF i > Len(repos) THEN matched
    ELSE MatchLoop(repos, i + 1, propertyName, valueSet,
                   IF MatchesProps(repos[i].Properties, 1, propertyName, valueSet)
                   THEN Append(matched, repos[i]) ELSE matched)

\* findMatchingRepos (part_000 316-340).
findMatchingRepos(repos, propertyName, propertyValues) ==
    MatchLoop(repos, 1, propertyName, Range(propertyValues), <<>>)

\* Values of other dynamic types: JSON null and a number.
NilValue == [kind |-> "nil", s |-> "", items |-> <<>>]
NumValue(n) == [kind |-> "number", s |-> n, items |-> <<>>]

\* The names sent to the remote: repositories without a full name are
\* skipped (part_000 243-250).
RepoFullNames(matching) ==
    SelectSeq([i \in DOMAIN matching |-> matching[i].RepositoryFullName],
              LAMBDA n : n # "")

\* Run up to its loop (part_000 119-145): the repositories and the active
\* cost centers are fetched; either fetch failing ends the run with an error.
Run ==
    /\ pc = "start" /\ flow = "repos"
    /\ \E reposFail \in BOOLEAN, listFail \in BOOLEAN :
         LET l == GetAllActiveCostCenters(remoteCC, ccCache, listFail) IN
         /\ (reposFail \/ listFail) => fails < MaxFail
         /\ reposFail => ~listFail
         /\ (listFail => allRepos # <<>>)
         /\ fails' = IF reposFail \/ listFail THEN fails + 1 ELSE fails
         /\ failed' = (failed \/ reposFail \/ listFail)
         /\ IF reposFail
            THEN /\ err' = "fetching repos" /\ pc' = "done"
                 /\ UNCHANGED <<ccCache, activeCCs, rI>>
            ELSE IF allRepos = <<>>
            THEN /\ pc' = "done" /\ UNCHANGED <<err, ccCache, activeCCs, rI>>
            ELSE IF l.err
            THEN /\ err' = "fetching active cost centers" /\ pc' = "done"
                 /\ UNCHANGED <<ccCache, activeCCs, rI>>
            ELSE /\ activeCCs' = l.active /\ ccCache' = l.cache
                 /\ rI' = 1 /\ pc' = "mapping" /\ UNCHANGED err
    /\ UNCHANGED <<ConfigVars, remoteTeamMembers, remoteCC, remoteMember,
                   remoteCC0, remoteMember0, membersCache, ccNameCache,
                   processed, userFinal, userTeamMap, assignments, SyncVars,
                   LogVars, BatchVars, flow, repoMappings, allRepos,
                   remoteRepo, remoteRepo0, mappingResults, repoCalls,
                   ComponentVars>>

\* One iteration of the loop of Run: processMapping (part_000 167-284) with
\* createBudgets (part_000 287-313).
processMapping ==
    /\ pc = "mapping"
    /\ LET mp == repoMappings[rI]
           name == mp.CostCenter
           matching == findMatchingRepos(allRepos, mp.PropertyName,
                                         mp.PropertyValues)
           result == [CostCenter |-> name, CostCenterID |-> "",
                      ReposMatched |-> Len(matching), ReposAssigned |-> 0,
                      Success |-> FALSE, Message |-> ""]
           Return(res) ==
               /\ mappingResults' = Append(mappingResults, res)
               /\ UNCHANGED <<remoteCC, ccCache, remoteRepo, activeCCs,
                              createCalls, budgetCalls, repoCalls, fails,
                              failed>>
       IN
       IF name = "" \/ mp.PropertyName = "" \/ Len(mp.PropertyValues) = 0
       THEN Return([result EXCEPT !.ReposMatched = 0,
                                  !.Message = "invalid mapping"])
       ELSE IF Len(matching) = 0
       THEN Return([result EXCEPT !.Message = "no matching repositories found"])
       ELSE IF IsPlan(runMode)
       THEN Return([result EXCEPT !.ReposAssigned = Len(matching),
                                  !.Success = TRUE, !.Message = "would assign"])
       ELSE
       \E o \in CreateOutcomes, addFails \in BOOLEAN,
          ps \in Orders(DOMAIN BudgetProducts),
          bout \in [EnabledProducts -> {"ok", "error", "unavailable"}] :
         LET known == name \in DOMAIN activeCCs
             es0 == [remote |-> remoteCC, cache |-> ccCache,
                     activeMap |-> activeCCs, createCalls |-> createCalls,
                     fails |-> fails, failed |-> failed, err |-> FALSE,
                     id |-> "", how |-> "", lists |-> 0, inactive |-> {}]
             es == IF known THEN [es0 EXCEPT !.id = activeCCs[name]]
                   ELSE CreateCostCenterWithPreload(es0, name, o)
             budgets == ~known /\ ~es.err /\ createBudgets
             bs0 == [calls |-> {}, fails |-> 0, disabled |-> FALSE,
                     log |-> <<>>]
             bs == IF budgets
                   THEN BudgetLoop(bs0, <<es.id>>, ps, 1, 1,
                                   [c \in {es.id} \X EnabledProducts |-> bout[c[2]]])
                   ELSE bs0
             repoNames == RepoFullNames(matching)
             sends == ~es.err /\ repoNames # <<>>
             total == es.fails + bs.fails + (IF addFails THEN 1 ELSE 0)
         IN /\ known => o = "ok"
            /\ ~budgets => \A p \in DOMAIN bout : bout[p] = "ok"
            /\ addFails => sends
            /\ total <= MaxFail
            /\ remoteCC' = es.remote /\ ccCache' = es.cache
            /\ createCalls' = es.createCalls
            /\ activeCCs' = IF es.err \/ known THEN es.activeMap
                            ELSE MapPut(es.activeMap, name, es.id)
            /\ budgetCalls' = budgetCalls \cup bs.calls
            /\ fails' = total
            /\ failed' = (es.failed \/ total > fails)
            /\ repoCalls' = IF sends THEN repoCalls \cup {<<es.id, repoNames>>}
                            ELSE repoCalls
            /\ remoteRepo' = IF sends /\ ~addFails
                             THEN [r \in DOMAIN remoteRepo |->
                                     IF r \in Range(repoNames) THEN es.id
                                     ELSE remoteRepo[r]]
                             ELSE remoteRepo
            /\ mappingResults' = Append(mappingResults,
                 IF es.err
                 THEN [result EXCEPT !.Message = "failed to create cost center"]
                 ELSE IF repoNames = <<>>
                 THEN [result EXCEPT !.CostCenterID = es.id,
                          !.Message = "no valid repository names to assign"]
                 ELSE IF addFails
                 THEN [result EXCEPT !.CostCenterID = es.id,
                                     !.Message = "failed to assign repos"]
                 ELSE [result EXCEPT !.CostCenterID = es.id,
                                     !.ReposAssigned = Len(repoNames),
                                     !.Success = TRUE,
                                     !.Message = "successfully assigned"])
    /\ rI' = rI + 1
    /\ pc' = IF rI = Len(repoMappings) THEN "done" ELSE "mapping"
    /\ UNCHANGED <<ConfigVars, remoteTeamMembers, remoteMember, remoteCC0,
                   remoteMember0, err, membersCache, ccNameCache, processed,
                   userFinal, userTeamMap, assignments, SyncVars, addCalls,
                   removeCalls, ensureLog, addLog, removeLog, BatchVars, flow,
                   repoMappings, allRepos, remoteRepo0, ComponentVars>>

-----------------------------------------------------------------------------
\* The runs of `assign --teams`.

\* Member listings of the full runs: team-a empty or {alice, bob}, team-b
\* empty or {bob}.
RunMemberLists(ref) ==
    IF ref[2] = "team-a" THEN {<<>>, <<"alice", "bob">>}
    ELSE {<<>>, <<"bob", "", "bob">>}

\* Remote states the full runs start from: which of the teams' cost centers
\* exist, and where alice, bob and dave are assigned.
RemoteInits(sc, md) ==
    LET A == NameOfTeam(sc, md, IF sc = "enterprise" THEN Enterprise ELSE "org1",
                        Team("Team A", "team-a"))
        B == NameOfTeam(sc, md, IF sc = "enterprise" THEN Enterprise ELSE "org1",
                        Team("Team B", "team-b"))
        ccs(S) == [n \in S \cup {Legacy} |-> IdFor(n)]
        mem(a, b, d) == [u \in Users |-> IF u = "alice" THEN a
                                         ELSE IF u = "bob" THEN b ELSE d]
        L == IdFor(Legacy)
    IN {[cc |-> ccs({}), member |-> m] :
            m \in {mem(None, None, None), mem(L, None, None)}}
       \cup
       {[cc |-> ccs(S), member |-> m] :
            S \in {{A}, {A, B} \ {None}},
            m \in {mem(None, None, None), mem(L, None, None),
                   mem(IdFor(A), IdFor(A), IdFor(A)), mem(None, None, IdFor(A)),
                   mem(L, None, IdFor(A))}}

InitTeams ==
    /\ scope \in {"organization", "enterprise"}
    /\ mode \in {"auto", "manual"}
    /\ orgs = IF scope = "enterprise" THEN <<>> ELSE <<"org1">>
    /\ mappings = Mappings
    /\ autoCreate \in BOOLEAN /\ removeUsers \in BOOLEAN
    /\ createBudgets \in BOOLEAN
    /\ runMode \in {"plan", "apply"}
    /\ assignCheckCurrentCC \in BOOLEAN
    /\ remoteTeamMembers \in
         {f \in [TeamRefs(ScopeKeys(scope, orgs)) -> MemberLists] :
             \A ref \in DOMAIN f : f[ref] \in RunMemberLists(ref)}
    /\ \E r \in RemoteInits(scope, mode) :
         /\ remoteCC = r.cc /\ remoteMember = r.member
    /\ remoteCC0 = remoteCC /\ remoteMember0 = remoteMember
    /\ ccCache = NoCache
    /\ RunAtRest /\ BatchAtRest /\ RepoAtRest /\ ComponentsAtRest

\* The runs of `assign --repo` on organization org1.
InitRepos ==
    /\ flow = "repos"
    /\ scope = "organization" /\ mode = "auto" /\ orgs = <<"org1">>
    /\ mappings = Mappings
    /\ autoCreate = FALSE /\ removeUsers = FALSE
    /\ createBudgets \in BOOLEAN
    /\ runMode \in {"plan", "apply"}
    /\ assignCheckCurrentCC = FALSE
    /\ remoteTeamMembers = EmptyMap
    /\ remoteCC \in {[n \in {Legacy} |-> IdFor(n)],
                     [n \in {Legacy, "cc-x"} |-> IdFor(n)]}
    /\ remoteMember = [u \in Users |-> None]
    /\ remoteCC0 = remoteCC /\ remoteMember0 = remoteMember
    /\ ccCache = NoCache
    /\ RunAtRest /\ BatchAtRest
    /\ repoMappings \in RepoMappingLists
    /\ allRepos \in RepoLists
    /\ remoteRepo \in {[r \in RepoNames |-> None],
                       [r \in RepoNames |-> IF r = "org1/r1" THEN IdFor(Legacy)
                                            ELSE None]}
    /\ remoteRepo0 = remoteRepo
    /\ activeCCs = EmptyMap /\ rI = 0 /\ mappingResults = <<>>
    /\ repoCalls = {}
    /\ ComponentsAtRest

Init == InitTeams \/ InitRepos \/ InitBudgets

Next ==
    \/ BuildTeamAssignments
    \/ Provision
    \/ CreateBudgets
    \/ Convert
    \/ AddUsers
    \/ CheckRemoval
    \/ Merge
    \/ Run
    \/ processMapping
    \/ EnsureBudgetsForCostCenter

Spec == Init /\ [][Next]_vars


-----------------------------------------------------------------------------
\* Properties of BuildTeamAssignments.

BuildReturned == pc # "start" /\ err = None

\* Places <<cost center name, index>> of `assignments` that hold user u.
Occurrences(u) ==
    {<<cc, i>> \in UNION {{cc} \X DOMAIN assignments[cc] : cc \in DOMAIN assignments} :
        assignments[cc][i].Username = u}

\* Indexes into `processed` of the mapped, non-empty teams that have member u.
GroupsOf(u) ==
    {i \in DOMAIN processed :
        /\ NameOfTeam(scope, mode, processed[i][1], TeamOf(processed[i])) # None
        /\ u \in Range(FilterLogins(remoteTeamMembers[processed[i]]))}

LastGroupOf(u) == CHOOSE i \in GroupsOf(u) : \A j \in GroupsOf(u) : j <= i

AllLogins == UNION {Range(FilterLogins(remoteTeamMembers[r])) : r \in DOMAIN remoteTeamMembers}

\* C2: every subject of a mapped, non-empty group is assigned the cost center
\* name of the last processed group that contains it (the only group for a
\* subject of one group, the last of them for a subject of several).
C2_LastGroupWins ==
    BuildReturned =>
        \A u \in AllLogins :
            GroupsOf(u) # {} =>
                LET ref == processed[LastGroupOf(u)]
                    name == NameOfTeam(scope, mode, ref[1], TeamOf(ref))
                IN /\ u \in DOMAIN userFinal
                   /\ userFinal[u].CostCenter = name
                   /\ userFinal[u].Org = ref[1] /\ userFinal[u].TeamSlug = ref[2]
                   /\ name \in DOMAIN assignments
                   /\ \E i \in DOMAIN assignments[name] :
                        assignments[name][i] = userFinal[u]

\* C2 witness: a subject of two groups with different cost centers was
\* assigned, and a subject of exactly one group was assigned.
C2_Witness ==
    /\ BuildReturned
    /\ \E u \in AllLogins :
         /\ Cardinality(GroupsOf(u)) = 2
         /\ \E i, j \in GroupsOf(u) :
              NameOfTeam(scope, mode, processed[i][1], TeamOf(processed[i])) #
              NameOfTeam(scope, mode, processed[j][1], TeamOf(processed[j]))
         /\ Occurrences(u) # {}
    /\ \E u \in AllLogins : Cardinality(GroupsOf(u)) = 1 /\ Occurrences(u) # {}

\* C1: every subject occurs in exactly one Assignment of the map returned by
\* BuildTeamAssignments (once in one cost center's list, in no other list),
\* however many groups it belongs to, and no submitted per-cost-center list
\* holds a subject twice.
C1_OneAssignmentPerSubject ==
    BuildReturned =>
        /\ \A u \in AllLogins :
             Cardinality(Occurrences(u)) = IF GroupsOf(u) # {} THEN 1 ELSE 0
        /\ \A cc \in DOMAIN assignments :
             \A i \in DOMAIN assignments[cc] :
                assignments[cc][i].Username \in AllLogins
        /\ \A id \in DOMAIN idBased : NoDup(idBased[id])
        /\ \A id \in DOMAIN addCalls : NoDup(Concat(addCalls[id]))

\* C1 witness: a subject of two groups, listed twice by one of them, has been
\* submitted.
C1_Witness ==
    /\ BuildReturned
    /\ \E u \in AllLogins :
         /\ Cardinality(GroupsOf(u)) = 2
         /\ \E r \in DOMAIN remoteTeamMembers :
              ~NoDup(FilterLogins(remoteTeamMembers[r])) /\ u \in Range(remoteTeamMembers[r])
         /\ \E id \in DOMAIN addCalls : u \in Range(Concat(addCalls[id]))

MutatingCalls ==
    <<createCalls, budgetCalls, addCalls, removeCalls, repoCalls>>

\* C3: a plan run, teams-based or repository-based, issues no create, budget,
\* add or remove call, and the remote state stays what it was before the run.
C3_PlanNeverMutates ==
    runMode = "plan" =>
        /\ MutatingCalls = <<{}, {}, EmptyMap, EmptyMap, {}>>
        /\ remoteCC = remoteCC0 /\ remoteMember = remoteMember0
        /\ remoteRepo = remoteRepo0

\* C3 witness: a plan run over cost centers that do not exist yet, with
\* auto-create, budgets and full sync all on, has finished.
C3_Witness ==
    /\ runMode = "plan" /\ pc = "done" /\ idBased # EmptyMap
    /\ autoCreate /\ createBudgets /\ removeUsers
    /\ \E n \in DOMAIN assignments : n \notin DOMAIN remoteCC

Elsewhere(r) == r.where \notin {None, r.cc}

C5_DefaultPreserves ==
    ~assignCheckCurrentCC =>
        \A r \in addLog : Elsewhere(r) => ~r.sent /\ r.after = r.where

\* C6: the stale set of a checked cost center is its current remote members
\* minus its desired subjects; with full sync on that set goes into one remove
\* call for the cost center, with full sync off no remove call is made and the
\* stale subjects stay.
C6_StaleRemoval ==
    /\ \A r \in removeLog :
         /\ r.stale = r.current \ r.desired
         /\ IF removeUsers /\ r.stale # {}
            THEN /\ r.cc \in DOMAIN removeCalls
                 /\ Len(removeCalls[r.cc]) = 1
                 /\ Range(removeCalls[r.cc][1]) = r.stale
                 /\ r.removed = "ok" => r.after = r.current \ r.stale
            ELSE r.cc \notin DOMAIN removeCalls /\ r.after = r.current
    /\ \A id \in DOMAIN removeCalls : \E r \in removeLog : r.cc = id
    /\ ~removeUsers => removeCalls = EmptyMap

\* C6 witness: desired {alice, bob}, remote {alice, bob, dave}: dave alone
\* was removed.
C6_Witness ==
    /\ removeUsers
    /\ \E r \in removeLog :
         /\ r.desired = {"alice", "bob"} /\ r.current = {"alice", "bob", "dave"}
         /\ removeCalls[r.cc] = <<<<"dave">>>>
         /\ r.after = {"alice", "bob"}

\* The mapped groups whose cost center is `name`.
GroupsNamed(name) ==
    {ref \in DOMAIN remoteTeamMembers :
        NameOfTeam(scope, mode, ref[1], TeamOf(ref)) = name}

\* C7: after a full-sync apply run in which every remote call succeeded, a
\* cost center that existed before the run and belongs to a mapped group holds
\* no subject that is absent from the group's current membership, an empty
\* group included.
C7_FullSyncConverges ==
    (pc = "done" /\ runMode = "apply" /\ removeUsers /\ err = None /\ ~failed) =>
        \A name \in DOMAIN remoteCC0 :
            GroupsNamed(name) # {} =>
                MembersOf(remoteMember, remoteCC0[name]) \subseteq
                    UNION {Range(FilterLogins(remoteTeamMembers[ref])) :
                             ref \in GroupsNamed(name)}

\* C9: an apply run that got a non-empty assignment set returns no error and
\* a result entry for every desired subject of every cost center id; with full
\* sync on, every subject submitted for removal has its removal status.
C9_ResultsComplete ==
    /\ (pc # "start" /\ assignments # EmptyMap) => err = None
    /\ (pc = "done" /\ ~IsPlan(runMode) /\ assignments # EmptyMap) =>
         /\ \A id \in DOMAIN idBased :
              /\ id \in DOMAIN results
              /\ \A u \in Range(idBased[id]) : u \in DOMAIN results[id]
         /\ removeUsers =>
              \A r \in removeLog :
                 r.removed # "none" =>
                    \A u \in r.stale :
                       /\ r.cc \in DOMAIN results /\ u \in DOMAIN results[r.cc]
                       /\ results[r.cc][u] = (r.removed = "ok")

\* C9 witness: an apply run with a failed members listing and a failed remove
\* call has returned its results.
C9_Witness ==
    /\ pc = "done" /\ runMode = "apply" /\ removeUsers
    /\ \E r \in removeLog : r.removed = "fail"
    /\ \E r \in addLog : ~r.listed

\* C10: a name whose creation is answered by a conflict with an extractable
\* id is mapped to that id and the id is not marked newly created (no budget,
\* not exempted from the removal pass).
C10_ConflictNotNewlyCreated ==
    \A r \in ensureLog :
        r.how = "conflict-uuid" =>
            /\ ccMap[r.name] = r.id
            /\ r.id \notin newlyCreated
            /\ \A c \in budgetCalls : c[1] # r.id

-----------------------------------------------------------------------------
\* Properties of the provisioning runs (SpecEnsure).

\* The name is that of an active cost center when the loop of the run reaches
\* it: it was there before the run or somebody else created it meanwhile.
Existed(run, n) == n \in DOMAIN run.before \cup run.raced

\* A remote call made for the name failed (the POST, or the fallback listing).
CallFailedFor(run, n) == run.out[n] \in {"fail", "nouuid-listfail"}

\* No name is created while an active cost center holds it.
NoSecondCostCenter(run) ==
    \A e \in run.log : e.how = "created" => ~Existed(run, e.name)

Unresolvable(run, n) ==
    /\ n \in run.creates
    /\ \/ run.out[n] \in {"fail", "nouuid-listfail"}
       \/ run.out[n] = "nouuid" /\ n \notin DOMAIN run.after

\* C12: a name that can be neither created nor found is mapped to itself and
\* not marked newly created; the call returns no error, resolves every other
\* name to an id and returns an entry for every requested name.
C12_UnresolvedNameFallsBack ==
    \A k \in DOMAIN eRuns :
       LET run == eRuns[k] IN
       run.auto =>
          /\ ~run.err
          /\ DOMAIN run.ccMap = Range(eNames)
          /\ \A n \in Range(eNames) :
                IF Unresolvable(run, n)
                THEN run.ccMap[n] = n /\ n \notin run.newly
                ELSE run.ccMap[n] # n

\* C12 witness: of two requested names the first was answered by a conflict
\* without an id and was not in the fallback listing, the second was created.
C12_Witness ==
    \E k \in DOMAIN eRuns :
       LET run == eRuns[k] IN
       /\ run.auto /\ Len(eNames) = 2
       /\ run.out[eNames[1]] = "nouuid" /\ Unresolvable(run, eNames[1])
       /\ run.lists = 2
       /\ [name |-> eNames[2], id |-> IdFor(eNames[2]), how |-> "created"]
             \in run.log

\* The names of the run whose create request was answered by a conflict
\* without an id, so that the fallback listing was made.
Relisted(run) ==
    {n \in run.creates : run.out[n] \in {"nouuid", "nouuid-listfail"}}

\* C13: with auto-create on, the preload listing is made once (every other
\* listing is the fallback of a conflict); when it fails the preload map is
\* empty and the call still returns no error and an entry for every name; a
\* name in the preload map gets the preloaded id with no call made for it
\* and is not marked newly created.
C13_Preload ==
    \A k \in DOMAIN eRuns :
       LET run == eRuns[k] IN
       run.auto =>
          /\ run.lists = 1 + Cardinality(Relisted(run))
          /\ run.preloadFailed =>
                /\ run.preload = EmptyMap
                /\ ~run.err /\ DOMAIN run.ccMap = Range(eNames)
          /\ ~run.preloadFailed => run.preload = run.before
          /\ \A n \in Range(eNames) \cap DOMAIN run.preload :
                /\ run.ccMap[n] = run.preload[n]
                /\ n \notin run.creates
                /\ run.preload[n] \notin run.newly
          /\ Range(eNames) \subseteq DOMAIN run.preload =>
                run.lists = 1 /\ run.creates = {} /\ run.newly = {}

\* C13 witness: of two requested names one was in the preload map and was
\* mapped without a call, the other was created; one listing was made.
C13_Witness ==
    \E k \in DOMAIN eRuns :
       LET run == eRuns[k] IN
       /\ run.auto /\ ~run.preloadFailed /\ Len(eNames) = 2
       /\ eNames[1] \in DOMAIN run.preload
       /\ [name |-> eNames[1], id |-> run.preload[eNames[1]], how |-> "preload"]
             \in run.log
       /\ run.creates = {eNames[2]} /\ run.lists = 1

\* C14: with auto-create off, EnsureCostCentersExist returns the identity
\* map over the requested names, a nil newly-created set and no error, and
\* makes no remote call.
C14_AutoCreateOff ==
    \A k \in DOMAIN eRuns :
       LET run == eRuns[k] IN
       ~run.auto =>
          /\ DOMAIN run.ccMap = Range(eNames)
          /\ \A n \in Range(eNames) : run.ccMap[n] = n
          /\ run.newlyNil /\ run.newly = {} /\ ~run.err
          /\ run.lists = 0 /\ run.creates = {}
          /\ run.after = run.before /\ remoteCC = remoteCC0

\* C14 witness: a call with auto-create off mapped two names to themselves,
\* one of which is the name of an existing cost center.
C14_Witness ==
    \E k \in DOMAIN eRuns :
       /\ ~eRuns[k].auto /\ Len(eNames) = 2
       /\ eNames[1] \in DOMAIN remoteCC /\ eNames[2] \notin DOMAIN remoteCC
       /\ eRuns[k].ccMap[eNames[1]] = eNames[1]

-----------------------------------------------------------------------------
\* Properties of budget creation.

\* The log holds a call answered by budgets-API-unavailable.
SawUnavailable(log) == \E i \in DOMAIN log : log[i].outcome = "unavailable"

\* No call follows one answered by budgets-API-unavailable.
UnavailableIsLast(log) ==
    \A i \in DOMAIN log : log[i].outcome = "unavailable" => i = Len(log)

CreatedInRun(id) ==
    \E n \in DOMAIN remoteCC \ DOMAIN remoteCC0 : remoteCC[n] = id

\* C16: a budget-create call is made only when budgets were requested, in
\* apply mode, for a cost center created in this run and for an enabled
\* product; unless the budgets API is unavailable, a failed call does not
\* keep the other products and cost centers from being attempted.
C16_BudgetCallsOnlyForNew ==
    /\ \A i \in DOMAIN budgetLog :
          /\ createBudgets /\ ~IsPlan(runMode)
          /\ BudgetProducts[budgetLog[i].product]
          /\ CreatedInRun(budgetLog[i].cc)
    /\ (/\ flow = "teams" /\ pc \in {"convert", "add", "remove", "done"}
        /\ createBudgets /\ ~SawUnavailable(budgetLog)) =>
          \A id \in newlyCreated, p \in EnabledProducts :
             \E i \in DOMAIN budgetLog :
                budgetLog[i].cc = id /\ budgetLog[i].product = p

-----------------------------------------------------------------------------
\* The request helper of the client: doJSON, backoff, rateLimitWait,
\* isTransient and readBody (part_003 522-593, 646-701).  Durations are in
\* seconds, bodies are modelled by their length in bytes.

\* Program constants (part_003 447-451).
maxRetries == 3
retryBackoffBase == 1
rateLimitFallback == 60

\* The byte limit readBody passes to io.LimitReader (part_003 696).
readBodyLimit == 4096

\* The length of the text "<error reading body>" (part_003 698).
readErrorTextLen == 20

\* Consecutive or interleaved 429 responses the remote gives in one call.
Max429 == 2

retryableStatusCodes == {429, 500, 502, 503, 504}

\* The substrings isTransient looks for in the text of an error.
TransientSubstrings ==
    {"connection refused", "connection reset", "i/o timeout",
     "TLS handshake timeout", "EOF"}

\* An error of c.do is modelled by the set of phrases its text contains.
NetErrors ==
    {{"connection refused"}, {"connection reset"}, {"i/o timeout"},
     {"TLS handshake timeout"}, {"unexpected EOF", "EOF"},
     {"no such host"}, {"marshalling request body"},
     {"certificate signed by unknown authority"}}

\* The nil error is the error without text.
NilError == {}

isTransient(e) == e # NilError /\ e \cap TransientSubstrings # {}

Pow2(n) == IF n = 0 THEN 1 ELSE IF n = 1 THEN 2 ELSE IF n = 2 THEN 4 ELSE 8

\* Mutant: the same wait before every retry.
backoff_Flat(att) == retryBackoffBase

backoff(att) == retryBackoffBase * Pow2(att)

\* The X-RateLimit-Reset header of a response: absent, not a number, or a
\* Unix time.
NoHeader == [text |-> FALSE, digits |-> FALSE, value |-> 0]
BadHeader == [text |-> TRUE, digits |-> FALSE, value |-> 0]
IntHeader(v) == [text |-> TRUE, digits |-> TRUE, value |-> v]

\* Reset times the remote announces, relative to the clock.
ResetOffsets == {2, -5}

ResetHeaders(t) == {NoHeader, BadHeader} \cup {IntHeader(t + d) : d \in ResetOffsets}

\* rateLimitWait(resp) at time t.
rateLimitWait(resp, t) ==
    IF ~resp.reset.text THEN rateLimitFallback
    ELSE IF ~resp.reset.digits THEN rateLimitFallback
    ELSE LET wait == (resp.reset.value - t) + 1 IN
         IF wait <= 0 THEN 1 ELSE wait

\* Response bodies: no body, a body of len bytes, or one whose read fails.
NilBody == [nil |-> TRUE, len |-> 0, readErr |-> FALSE]
Body(n) == [nil |-> FALSE, len |-> n, readErr |-> FALSE]
BrokenBody(n) == [nil |-> FALSE, len |-> n, readErr |-> TRUE]

Min(a, b) == IF a < b THEN a ELSE b

\* Mutant: the whole body is read.
readBody_NoLimit(resp) ==
    IF resp.Body.nil THEN [marker |-> FALSE, len |-> 0]
    ELSE IF resp.Body.readErr THEN [marker |-> TRUE, len |-> readErrorTextLen]
    ELSE [marker |-> FALSE, len |-> resp.Body.len]

\* readBody(resp): the text read, by its length; marker when it is the
\* "<error reading body>" text instead of bytes of the body.
readBody(resp) ==
    IF resp.Body.nil THEN [marker |-> FALSE, len |-> 0]
    ELSE IF resp.Body.readErr THEN [marker |-> TRUE, len |-> readErrorTextLen]
    ELSE [marker |-> FALSE, len |-> Min(resp.Body.len, readBodyLimit)]

Response(status, body, reset, decodable) ==
    [StatusCode |-> status, Body |-> body, reset |-> reset, decodable |-> decodable]

\* What the remote can answer at time t; n429 is the number of 429 responses
\* it has given in this call.
Responses(t, n429) ==
    {Response(s, Body(100), NoHeader, d) : s \in {200, 204}, d \in BOOLEAN}
    \cup {Response(429, Body(100), h, FALSE) : h \in IF n429 < Max429 THEN ResetHeaders(t) ELSE {}}
    \cup {Response(s, Body(5000), NoHeader, FALSE) : s \in {500, 502, 503, 504}}
    \cup {Response(s, b, NoHeader, FALSE) : s \in {304, 404, 501}, b \in {NilBody, Body(100), Body(4096), Body(5000), BrokenBody(100)}}

\* The outcomes of c.do: an error, or a response.
Outcomes(t, n429) ==
    {[err |-> e, resp |-> Response(0, NilBody, NoHeader, FALSE)] : e \in NetErrors}
    \cup {[err |-> NilError, resp |-> r] : r \in Responses(t, n429)}

\* What doJSON returns: (resp, err).
Return(hasResp, e) == [resp |-> hasResp, err |-> e]
NoReturn == Return(FALSE, [kind |-> "pending"])
NoError == [kind |-> "nil"]
NetError(e) == [kind |-> "net", text |-> e]
DecodeError == [kind |-> "decode"]
APIError(status, body) == [kind |-> "api", StatusCode |-> status, Body |-> body]
RetriesError == [kind |-> "retries"]

\* Mutant: a retry is allowed at every attempt.
CanRetry_Always(att) == TRUE

\* The retry test of both retrying branches (part_003 526, 571).
CanRetry(att) == att < maxRetries - 1

\* Mutant: a rate-limit wait uses up an attempt.
AfterRateLimit_Counted(att) == att + 1

\* The attempt counter after a 429 response (part_003 567: continue).
AfterRateLimit(att) == att

\* Mutant: a retry leaves the attempt counter as it is.
AfterRetry_Same(att) == att

\* The attempt counter after a retried error or status (part_003 535, 580:
\* attempt++).
AfterRetry(att) == att + 1

\* The non-2xx statuses that are neither waited for nor retried.
IsTerminalStatus(status) == status \notin retryableStatusCodes

\* json.NewDecoder(resp.Body).Decode(dest) fails (part_003 544-548).
DecodeFails(d, resp) == d /\ ~resp.decodable

\* One iteration of the loop of doJSON (part_003 523-589) at attempt att and
\* time t, with destination flag d, for outcome o of c.do: the wait slept,
\* the new attempt counter, and what is returned when the call ends.
Iteration(att, t, d, o) ==
    IF o.err # NilError
    THEN IF isTransient(o.err) /\ CanRetry(att)
         THEN [done |-> FALSE, wait |-> backoff(att), attempt |-> AfterRetry(att), ret |-> NoReturn]
         ELSE [done |-> TRUE, wait |-> 0, attempt |-> att, ret |-> Return(FALSE, NetError(o.err))]
    ELSE LET resp == o.resp IN
         IF resp.StatusCode >= 200 /\ resp.StatusCode < 300
         THEN IF DecodeFails(d, resp)
              THEN [done |-> TRUE, wait |-> 0, attempt |-> att, ret |-> Return(TRUE, DecodeError)]
              ELSE [done |-> TRUE, wait |-> 0, attempt |-> att, ret |-> Return(TRUE, NoError)]
         ELSE LET errBody == readBody(resp) IN
              IF resp.StatusCode = 429
              THEN [done |-> FALSE, wait |-> rateLimitWait(resp, t), attempt |-> AfterRateLimit(att), ret |-> NoReturn]
              ELSE IF ~IsTerminalStatus(resp.StatusCode) /\ CanRetry(att)
              THEN [done |-> FALSE, wait |-> backoff(att), attempt |-> AfterRetry(att), ret |-> NoReturn]
              ELSE [done |-> TRUE, wait |-> 0, attempt |-> att, ret |-> Return(TRUE, APIError(resp.StatusCode, errBody))]

\* The entry of callLog for one request.
LogEntry(att, t, o, it) ==
    [attempt |-> att, at |-> t,
     err |-> IF o.err = NilError THEN "" ELSE IF isTransient(o.err) THEN "transient" ELSE "other",
     status |-> o.resp.StatusCode, reset |-> o.resp.reset, resp |-> o.resp,
     wait |-> it.wait, retried |-> ~it.done]

Count429(log) == Cardinality({i \in DOMAIN log : log[i].status = 429})

\* A doJSON call, with or without a destination, about to enter its loop.
InitCall ==
    /\ scope = "organization" /\ mode = "auto" /\ orgs = <<"org1">>
    /\ mappings = Mappings
    /\ autoCreate = FALSE /\ removeUsers = FALSE /\ createBudgets = FALSE
    /\ runMode = "apply" /\ assignCheckCurrentCC = FALSE
    /\ remoteTeamMembers = EmptyMap
    /\ remoteCC = EmptyMap /\ remoteMember = EmptyMap
    /\ remoteCC0 = remoteCC /\ remoteMember0 = remoteMember
    /\ ccCache = NoCache
    /\ RunAtRest /\ BatchAtRest /\ RepoAtRest /\ EnsureAtRest /\ BudgetsAtRest
    /\ CacheAtRest /\ AuxAtRest
    /\ dest \in BOOLEAN
    /\ attempt = 0 /\ callPc = "loop" /\ callLog = <<>> /\ callRet = NoReturn
    /\ now = 0

\* One pass through `for attempt < maxRetries` (part_003 523-589): the
\* request, the sleep when it is retried, and the return when it is not; the
\* return after the loop (part_003 592) when the counter has run out.
doJSONPass(outs) ==
    /\ callPc = "loop"
    /\ \E o \in outs :
         LET it == Iteration(attempt, now, dest, o) IN
         /\ callLog' = Append(callLog, LogEntry(attempt, now, o, it))
         /\ attempt' = it.attempt
         /\ now' = now + it.wait
         /\ IF it.done
            THEN callRet' = it.ret /\ callPc' = "returned"
            ELSE IF it.attempt < maxRetries
            THEN callRet' = callRet /\ callPc' = "loop"
            ELSE callRet' = Return(FALSE, RetriesError) /\ callPc' = "returned"
    /\ UNCHANGED <<ConfigVars, RemoteVars, pc, err, membersCache, ccNameCache,
                   processed, userFinal, userTeamMap, assignments, SyncVars,
                   LogVars, fails, failed, BatchVars, RepoVars, EnsureVars,
                   BudgetMgrVars, budgetLog, dest, CacheVars, AuxVars>>

\* A doJSON call against a remote that can give every outcome.
doJSON == doJSONPass(Outcomes(now, Count429(callLog)))

NextCall == doJSON

SpecCall == InitCall /\ [][NextCall]_vars

\* One outcome of each kind the loop of doJSON tells apart: a transient and
\* another error of c.do, a 2xx that decodes and one that does not, a 429
\* with each reset header, a retryable 5xx and a terminal status.
OutcomeClasses(t, n429) ==
    {o \in Outcomes(t, n429) :
        /\ o.err \in {NilError, {"connection reset"}, {"no such host"}}
        /\ o.resp.StatusCode \in {0, 200, 429, 503, 404}
        /\ o.resp.Body \in {NilBody, Body(100), Body(5000)}}

\* A doJSON call against a remote that gives one outcome of each kind.
doJSONByClass == doJSONPass(OutcomeClasses(now, Count429(callLog)))

NextCallLive == doJSONByClass

\* The loop of doJSON goes on: c.do returns (the http.Client has a timeout)
\* and time.Sleep ends, so a pass that can be made is made.
SpecCallLive == InitCall /\ [][NextCallLive]_vars /\ WF_vars(doJSONByClass)

-----------------------------------------------------------------------------
\* The cost center cache (package cache, budgets/manager.go 69-310): one
\* live Cache over one cache file.  Times are in hours.

\* Program constants (budgets/manager.go 84-92).
DefaultTTLHours == 24
currentVersion == 1

\* The clock is followed up to this hour.
MaxClock == 25

\* The clock advances by these steps between two operations.
ClockSteps == {12, 13}

\* The zero time.Time, far before every other time of the model.
ZeroTime == -1000000

Entry(id, name, at, ttl) == [ID |-> id, Name |-> name, CachedAt |-> at, TTLHours |-> ttl]

\* Entry{}.
ZeroEntry == Entry("", "", ZeroTime, 0)

\* Mutant: an entry expires when its age reaches the TTL.
IsExpired_AtTTL(e, t) == t - e.CachedAt >= e.TTLHours

\* e.IsExpired() at time t.
IsExpired(e, t) == LET ttl == e.TTLHours IN t - e.CachedAt > ttl

\* cacheData and its JSON form.
CacheData(version, entries) == [Version |-> version, Entries |-> entries]

\* Mutant: the name of an entry is not written.
JsonEntry_NoName(e) == [id |-> e.ID, name |-> "", cached_at |-> e.CachedAt, ttl_hours |-> e.TTLHours]

JsonEntry(e) == [id |-> e.ID, name |-> e.Name, cached_at |-> e.CachedAt, ttl_hours |-> e.TTLHours]

\* The JSON document; null says that "entries" is null or missing.
Json(version, null, entries) == [version |-> version, null |-> null, entries |-> entries]

\* enc.Encode(c.data).
Encode(d) == Json(d.Version, FALSE, [k \in DOMAIN d.Entries |-> JsonEntry(d.Entries[k])])

FromJsonEntry(j) == Entry(j.id, j.name, j.cached_at, j.ttl_hours)

\* json.NewDecoder(f).Decode(&d); nil tells that d.Entries is nil.
Decode(j) == [Version |-> j.version, nil |-> j.null, Entries |-> [k \in DOMAIN j.entries |-> FromJsonEntry(j.entries[k])]]

\* The cache file: absent, not parsable, or a JSON document.
NoFile == [exists |-> FALSE, parses |-> FALSE, json |-> Json(0, TRUE, EmptyMap)]
CorruptFile == [exists |-> TRUE, parses |-> FALSE, json |-> Json(0, TRUE, EmptyMap)]
JsonFile(j) == [exists |-> TRUE, parses |-> TRUE, json |-> j]

\* Mutant: the entries of a file of another version are taken over.
VersionMatches_Always(version) == TRUE

\* d.Version != currentVersion, negated (budgets/manager.go 272).
VersionMatches(version) == version = currentVersion

\* c.load() on cache data c: the data afterwards and the error.  openFails:
\* os.Open fails although the file exists.
load(c, f, openFails) ==
    IF ~f.exists \/ openFails THEN [data |-> c, err |-> "open"]
    ELSE IF ~f.parses THEN [data |-> c, err |-> "decoding cache file"]
    ELSE LET d == Decode(f.json) IN
         IF ~VersionMatches(d.Version) THEN [data |-> c, err |-> "nil"]
         ELSE [data |-> CacheData(d.Version, IF d.nil THEN EmptyMap ELSE d.Entries),
               err |-> "nil"]

\* New(dir, logger): the data of the new Cache and the error New returns.
NewCache(f, openFails) ==
    LET c == CacheData(currentVersion, EmptyMap) IN
    [data |-> load(c, f, openFails).data, err |-> "nil"]

\* What can go wrong in save: MkdirAll (only when the directory, and so the
\* file, does not exist), os.Create, or the write of the encoded data.
SaveFaults(f) == {"ok", "create", "encode"} \cup (IF f.exists THEN {} ELSE {"mkdir"})

\* c.save(): the file afterwards and the error.
save(d, f, fault) ==
    CASE fault = "mkdir" -> [file |-> f, err |-> "creating cache directory"]
      [] fault = "create" -> [file |-> f, err |-> "creating cache file"]
      [] fault = "encode" -> [file |-> CorruptFile, err |-> "encoding cache file"]
      [] OTHER -> [file |-> JsonFile(Encode(d)), err |-> "nil"]

\* What can go wrong in os.Remove of an existing file.
RemoveFaults(f) == IF f.exists THEN {"ok", "remove"} ELSE {"ok"}

\* Mutant: Get drops the expired entry it finds.
AfterGet_Sweep(d, key, t) == CacheData(d.Version, [k \in {x \in DOMAIN d.Entries : x # key \/ ~IsExpired(d.Entries[x], t)} |-> d.Entries[k]])

\* c.data after Get(key): Get only reads.
AfterGet(d, key, t) == d

\* c.Get(key) at time t.
CacheGet(d, key, t) ==
    IF key \notin DOMAIN d.Entries THEN [entry |-> ZeroEntry, found |-> FALSE]
    ELSE LET e == d.Entries[key] IN
         IF IsExpired(e, t) THEN [entry |-> ZeroEntry, found |-> FALSE]
         ELSE [entry |-> e, found |-> TRUE]

\* c.GetStats() at time t (FilePath and FileSizeBytes are left out).
CacheStats(d, t) ==
    [TotalEntries |-> Cardinality(DOMAIN d.Entries),
     ExpiredEntries |-> Cardinality({k \in DOMAIN d.Entries : IsExpired(d.Entries[k], t)}),
     ValidEntries |-> Cardinality({k \in DOMAIN d.Entries : ~IsExpired(d.Entries[k], t)})]

NoStats == [TotalEntries |-> 0, ExpiredEntries |-> 0, ValidEntries |-> 0]

\* Mutant: a failed save takes the new entry back out of the table.
SetResult_Rollback(d, old, e) == IF e = "nil" THEN d ELSE CacheData(old.Version, EmptyMap)

\* c.data after Set: the entry stays whether or not save succeeded.
SetResult(d, old, e) == d

\* Mutant: cleanup drops every entry.
ExpiredKeys_All(d, t) == DOMAIN d.Entries

\* The keys CleanupExpired deletes.
ExpiredKeys(d, t) == {k \in DOMAIN d.Entries : IsExpired(d.Entries[k], t)}

\* Mutant: Clear leaves the file in place.
ClearFile_Keep(f, fault) == [file |-> f, err |-> "nil"]

\* os.Remove(c.filePath) in Clear and the error Clear returns.
ClearFile(f, fault) ==
    IF fault = "remove" THEN [file |-> f, err |-> "removing cache file"]
    ELSE [file |-> NoFile, err |-> "nil"]

CacheKeys == {"a", "b"}
\* The values Set is called with for a key.
CacheValues(key) ==
    IF key = "a" THEN {<<"id-1", "One">>, <<"id-2", "Two">>} ELSE {<<"id-3", "Three">>}

\* Files found by the first New: none, a broken one, one of another version,
\* one with null entries, and files written by earlier runs.
InitialFiles ==
    {NoFile, CorruptFile,
     JsonFile(Json(2, FALSE, [k \in {"a"} |-> JsonEntry(Entry("id-9", "Nine", 0, 24))])),
     JsonFile(Json(currentVersion, TRUE, EmptyMap)),
     JsonFile(Json(currentVersion, FALSE, [k \in {"a"} |-> JsonEntry(Entry("id-0", "Zero", -25, 24))])),
     JsonFile(Json(currentVersion, FALSE, [k \in {"b"} |-> JsonEntry(Entry("id-0", "Zero", -10, 12))]))}

\* The record of an operation: what it was called with, what it returned and
\* the data and file it found; for New also the operation made last by the
\* process before.
Op(op, key, val, res, e, fault) ==
    [op |-> op, key |-> key, val |-> val, entry |-> res.entry, found |-> res.found,
     removed |-> res.removed, stats |-> res.stats, err |-> e, fault |-> fault,
     before |-> [data |-> data, file |-> file], at |-> clock,
     prev |-> IF op = "New" THEN [op |-> lastOp.op, err |-> lastOp.err]
              ELSE [op |-> "", err |-> ""]]

NoResult == [entry |-> ZeroEntry, found |-> FALSE, removed |-> 0, stats |-> NoStats]

InitCache ==
    /\ scope = "organization" /\ mode = "auto" /\ orgs = <<"org1">>
    /\ mappings = Mappings
    /\ autoCreate = FALSE /\ removeUsers = FALSE /\ createBudgets = FALSE
    /\ runMode = "apply" /\ assignCheckCurrentCC = FALSE
    /\ remoteTeamMembers = EmptyMap
    /\ remoteCC = EmptyMap /\ remoteMember = EmptyMap
    /\ remoteCC0 = remoteCC /\ remoteMember0 = remoteMember
    /\ ccCache = NoCache
    /\ RunAtRest /\ BatchAtRest /\ RepoAtRest /\ EnsureAtRest /\ BudgetsAtRest
    /\ CallAtRest /\ AuxAtRest
    /\ file \in InitialFiles
    /\ clock = 0
    /\ data = CacheData(currentVersion, EmptyMap)
    /\ lastOp = [op |-> "none", err |-> "nil"]

CacheFrame ==
    UNCHANGED <<ConfigVars, RemoteVars, pc, err, membersCache, ccNameCache,
                processed, userFinal, userTeamMap, assignments, SyncVars,
                LogVars, fails, failed, BatchVars, RepoVars, EnsureVars,
                BudgetMgrVars, budgetLog, CallVars, AuxVars>>

\* A process starts and opens the cache: New (budgets/manager.go 133-156).
New ==
    /\ \E openFails \in IF file.exists THEN BOOLEAN ELSE {FALSE} :
         LET n == NewCache(file, openFails) IN
         /\ data' = n.data
         /\ lastOp' = Op("New", "", <<"", "">>, NoResult, n.err,
                         IF openFails THEN "open" ELSE "ok")
    /\ UNCHANGED <<file, clock>>
    /\ CacheFrame

Opened == lastOp.op # "none"

\* Get (budgets/manager.go 158-174).
Get ==
    /\ Opened
    /\ \E key \in CacheKeys :
         LET g == CacheGet(data, key, clock) IN
         /\ data' = AfterGet(data, key, clock)
         /\ lastOp' = Op("Get", key, <<"", "">>,
                         [NoResult EXCEPT !.entry = g.entry, !.found = g.found],
                         "nil", "ok")
    /\ UNCHANGED <<file, clock>>
    /\ CacheFrame

\* Set (budgets/manager.go 176-189).
Set ==
    /\ Opened
    /\ \E key \in CacheKeys, fault \in SaveFaults(file) : \E val \in CacheValues(key) :
         LET d == CacheData(data.Version,
                            MapPut(data.Entries, key,
                                   Entry(val[1], val[2], clock, DefaultTTLHours)))
             s == save(d, file, fault)
         IN /\ data' = SetResult(d, data, s.err)
            /\ file' = s.file
            /\ lastOp' = Op("Set", key, val, NoResult, s.err, fault)
    /\ UNCHANGED clock
    /\ CacheFrame

\* GetStats (budgets/manager.go 191-214).
GetStats ==
    /\ Opened
    /\ lastOp' = Op("GetStats", "", <<"", "">>,
                    [NoResult EXCEPT !.stats = CacheStats(data, clock)], "nil", "ok")
    /\ UNCHANGED <<data, file, clock>>
    /\ CacheFrame

\* Clear (budgets/manager.go 216-228).
Clear ==
    /\ Opened
    /\ \E fault \in RemoveFaults(file) :
         LET r == ClearFile(file, fault) IN
         /\ data' = CacheData(data.Version, EmptyMap)
         /\ file' = r.file
         /\ lastOp' = Op("Clear", "", <<"", "">>, NoResult, r.err, fault)
    /\ UNCHANGED clock
    /\ CacheFrame

\* CleanupExpired (budgets/manager.go 230-253).
CleanupExpired ==
    /\ Opened
    /\ \E fault \in SaveFaults(file) :
         LET gone == ExpiredKeys(data, clock)
             removed == Cardinality(gone)
             d == CacheData(data.Version,
                            [k \in DOMAIN data.Entries \ gone |-> data.Entries[k]])
             s == IF removed > 0 THEN save(d, file, fault)
                  ELSE [file |-> file, err |-> "nil"]
         IN /\ removed = 0 => fault = "ok"
            /\ data' = d
            /\ file' = s.file
            /\ lastOp' = Op("CleanupExpired", "", <<"", "">>,
                            [NoResult EXCEPT !.removed = removed], s.err, fault)
    /\ UNCHANGED clock
    /\ CacheFrame

\* Time passes between two operations.
Tick ==
    /\ Opened
    /\ \E d \in ClockSteps :
         /\ clock + d <= MaxClock
         /\ clock' = clock + d
    /\ UNCHANGED <<data, file, lastOp>>
    /\ CacheFrame

NextCache == New \/ Get \/ Set \/ GetStats \/ Clear \/ CleanupExpired \/ Tick

SpecCache == InitCache /\ [][NextCache]_vars

-----------------------------------------------------------------------------
\* GetAllActiveCostCenters of a client with the cache attached.

\* At most this many listings are followed.
MaxLists == 2

\* A cost center of the list response.
CostCenter(id, name, state) == [ID |-> id, Name |-> name, State |-> state]

\* List responses: the service keeps the names of the active cost centers
\* distinct; a deleted cost center can bear the name of an active one, and a
\* record can come without name or id.
ListResponses ==
    {<<>>,
     <<CostCenter("id:cc-x", "cc-x", "active"), CostCenter("id:cc-y", "cc-y", "deleted")>>,
     <<CostCenter("id:old", "cc-x", "deleted"), CostCenter("id:cc-x", "cc-x", "active")>>,
     <<CostCenter("id:cc-x", "cc-x", "active"), CostCenter("id:old", "cc-x", "deleted")>>,
     <<CostCenter("", "cc-y", "active"), CostCenter("id:cc-x", "", "active"),
       CostCenter("id:new", "cc-x", "active")>>,
     <<CostCenter("id:cc-x", "cc-x", "active"), CostCenter("id:cc-y", "cc-y", "active")>>}

\* Mutant: the state of a cost center is not looked at.
IsListed_AnyState(cc) == cc.Name # "" /\ cc.ID # ""

\* The condition of part_003 75.
IsListed(cc) == cc.State = "active" /\ cc.Name # "" /\ cc.ID # ""

\* The loop of part_003 74-82 from index i on: the active map, and the cache
\* after the Set calls, whose errors are dropped; faults[i] is what goes
\* wrong in the save of the Set for record i.
RECURSIVE ListLoop(_, _, _, _, _)
ListLoop(st, resp, i, faults, t) ==
    IF i > Len(resp) THEN st
    ELSE LET cc == resp[i] IN
         IF ~IsListed(cc) THEN ListLoop(st, resp, i + 1, faults, t)
         ELSE LET d == CacheData(st.data.Version,
                                 MapPut(st.data.Entries, cc.Name,
                                        Entry(cc.ID, cc.Name, t, DefaultTTLHours)))
                  sv == save(d, st.file, faults[i])
              IN ListLoop([active |-> MapPut(st.active, cc.Name, cc.ID),
                           data |-> SetResult(d, st.data, sv.err),
                           file |-> sv.file,
                           written |-> st.written \cup {cc.Name}],
                          resp, i + 1, faults, t)

\* Client.ccCache as the other specifications see it: the ids of the valid
\* entries of cache data d at time t.
CacheView(d, t) ==
    [attached |-> TRUE,
     entries |-> [k \in {x \in DOMAIN d.Entries : ~IsExpired(d.Entries[x], t)} |->
                    d.Entries[k].ID]]

\* Cache files the client starts with: none, or one an earlier run wrote.
ListFiles ==
    {NoFile,
     JsonFile(Json(currentVersion, FALSE,
                   [k \in {"cc-x", "cc-y"} |->
                      JsonEntry(Entry("id:was-" \o k, k, -1, DefaultTTLHours))]))}

InitList ==
    /\ scope = "organization" /\ mode = "auto" /\ orgs = <<"org1">>
    /\ mappings = Mappings
    /\ autoCreate = FALSE /\ removeUsers = FALSE /\ createBudgets = FALSE
    /\ runMode = "apply" /\ assignCheckCurrentCC = FALSE
    /\ remoteTeamMembers = EmptyMap
    /\ remoteCC = EmptyMap /\ remoteMember = EmptyMap
    /\ remoteCC0 = remoteCC /\ remoteMember0 = remoteMember
    /\ RunAtRest /\ BatchAtRest /\ RepoAtRest /\ EnsureAtRest /\ BudgetsAtRest
    /\ CallAtRest /\ MemoAtRest /\ LockAtRest /\ MatchAtRest
    /\ file \in ListFiles
    /\ clock = 0
    /\ data = NewCache(file, FALSE).data
    /\ lastOp = [op |-> "New", err |-> "nil"]
    /\ ccCache = CacheView(data, clock)
    /\ listLog = <<>>

ListFrame ==
    UNCHANGED <<ConfigVars, remoteTeamMembers, remoteCC, remoteMember, remoteCC0,
                remoteMember0, pc, err, membersCache, ccNameCache, processed,
                userFinal, userTeamMap, assignments, SyncVars, LogVars,
                failed, BatchVars, RepoVars, EnsureVars, BudgetMgrVars,
                budgetLog, CallVars, MemoVars, LockVars, MatchVars, lastOp>>

\* One call of GetAllActiveCostCenters (part_003 65-85); listFails: doJSON
\* returned an error.  The failed request and the failed saves count as
\* failures of the run.
ListActive ==
    /\ Len(listLog) < MaxLists
    /\ \E resp \in ListResponses, listFails \in BOOLEAN :
       \E faults \in [DOMAIN resp -> {"ok", "create", "encode"}] :
         LET st0 == [active |-> EmptyMap, data |-> data, file |-> file,
                     written |-> {}]
             st == IF listFails THEN st0 ELSE ListLoop(st0, resp, 1, faults, clock)
             injected == (IF listFails THEN 1 ELSE 0)
                         + Cardinality({i \in DOMAIN resp : faults[i] # "ok"})
         IN /\ \A i \in DOMAIN resp :
                 faults[i] # "ok" => ~listFails /\ IsListed(resp[i])
            /\ fails + injected <= MaxFail
            /\ fails' = fails + injected
            /\ data' = st.data /\ file' = st.file
            /\ ccCache' = CacheView(st.data, clock)
            /\ listLog' = Append(listLog,
                 [resp |-> resp, err |-> listFails, active |-> st.active,
                  written |-> st.written, faults |-> faults,
                  before |-> data, at |-> clock])
    /\ UNCHANGED clock
    /\ ListFrame

\* Time passes between two listings.
ListTick ==
    /\ listLog # <<>>
    /\ \E d \in ClockSteps :
         /\ clock + d <= MaxClock
         /\ clock' = clock + d
    /\ ccCache' = CacheView(data, clock')
    /\ UNCHANGED <<data, file, listLog, fails>>
    /\ ListFrame

NextList == ListActive \/ ListTick

SpecList == InitList /\ [][NextList]_vars

-----------------------------------------------------------------------------
\* Concurrent callers of one Cache.  Every method locks c.mu first and
\* unlocks it on return (budgets/manager.go 161-162, 178-179, 193-194,
\* 218-219, 233-234); between the two its reads and writes of c.data and of
\* the file are steps of their own.

\* The goroutines that call the cache.
Callers == {1, 2}

\* At most this many operations are called in all.
MaxOps == 3

\* The calls the goroutines make; fault is what goes wrong in the file
\* system during the call.
CacheCall(op, key, val, fault) == [op |-> op, key |-> key, val |-> val, fault |-> fault]

LockOps ==
    {CacheCall("Get", "a", <<"", "">>, "ok"),
     CacheCall("GetStats", "", <<"", "">>, "ok"),
     CacheCall("Set", "a", <<"id-1", "One">>, "ok"),
     CacheCall("Set", "a", <<"id-2", "Two">>, "encode"),
     CacheCall("Set", "b", <<"id-3", "Three">>, "create"),
     CacheCall("Clear", "", <<"", "">>, "ok"),
     CacheCall("Clear", "", <<"", "">>, "remove"),
     CacheCall("CleanupExpired", "", <<"", "">>, "ok")}

\* The cache the goroutines share: entry a has expired, entry c has not.
LockStartFile ==
    JsonFile(Json(currentVersion, FALSE,
                  [k \in {"a", "c"} |->
                     IF k = "a" THEN JsonEntry(Entry("id-0", "Zero", -25, DefaultTTLHours))
                     ELSE JsonEntry(Entry("id-4", "Four", -1, DefaultTTLHours))]))

LockStart == [data |-> NewCache(LockStartFile, FALSE).data, file |-> LockStartFile]

\* Mutant: Lock returns although another goroutine holds the mutex.
CanLock_Always(holders) == TRUE

\* c.mu.Lock() returns only while nobody holds the mutex.
CanLock(holders) == holders = {}

\* The first step of a method after it has locked the mutex.
FirstStep(op) ==
    CASE op = "Set" -> "store"
      [] op = "Clear" -> "reset"
      [] op = "CleanupExpired" -> "sweep"
      [] OTHER -> "read"

\* os.Remove fails only on a file that is there.
RemoveFault(f, fault) == IF f.exists THEN fault ELSE "ok"

\* A method as a whole, on cache state st = [data, file] at time t: what
\* Set, Clear and CleanupExpired leave behind when nothing runs beside them.
Apply(st, o, t) ==
    CASE o.op = "Set" ->
           LET d == CacheData(st.data.Version,
                              MapPut(st.data.Entries, o.key,
                                     Entry(o.val[1], o.val[2], t, DefaultTTLHours)))
               sv == save(d, st.file, o.fault)
           IN [data |-> SetResult(d, st.data, sv.err), file |-> sv.file]
      [] o.op = "Clear" ->
           [data |-> CacheData(st.data.Version, EmptyMap),
            file |-> ClearFile(st.file, RemoveFault(st.file, o.fault)).file]
      [] o.op = "CleanupExpired" ->
           LET gone == ExpiredKeys(st.data, t)
               d == CacheData(st.data.Version,
                              [k \in DOMAIN st.data.Entries \ gone |-> st.data.Entries[k]])
           IN [data |-> d,
               file |-> IF gone # {} THEN save(d, st.file, o.fault).file ELSE st.file]
      [] OTHER -> [data |-> AfterGet(st.data, o.key, t), file |-> st.file]

\* The methods ops[order[i]], ops[order[i+1]], ... one after the other.
RECURSIVE Replay(_, _, _, _, _)
Replay(st, ops, order, i, t) ==
    IF i > Len(order) THEN st
    ELSE Replay(Apply(st, ops[order[i]], t), ops, order, i + 1, t)

InitLock ==
    /\ scope = "organization" /\ mode = "auto" /\ orgs = <<"org1">>
    /\ mappings = Mappings
    /\ autoCreate = FALSE /\ removeUsers = FALSE /\ createBudgets = FALSE
    /\ runMode = "apply" /\ assignCheckCurrentCC = FALSE
    /\ remoteTeamMembers = EmptyMap
    /\ remoteCC = EmptyMap /\ remoteMember = EmptyMap
    /\ remoteCC0 = remoteCC /\ remoteMember0 = remoteMember
    /\ ccCache = NoCache
    /\ RunAtRest /\ BatchAtRest /\ RepoAtRest /\ EnsureAtRest /\ BudgetsAtRest
    /\ CallAtRest /\ MemoAtRest /\ ListAtRest /\ MatchAtRest
    /\ file = LockStart.file /\ data = LockStart.data
    /\ clock = 0
    /\ lastOp = [op |-> "New", err |-> "nil"]
    /\ mu = {}
    /\ thr = [t \in Callers |-> [pc |-> "idle", call |-> CacheCall("", "", <<"", "">>, "ok")]]
    /\ opLog = <<>>

LockFrame ==
    UNCHANGED <<ConfigVars, RemoteVars, pc, err, membersCache, ccNameCache,
                processed, userFinal, userTeamMap, assignments, SyncVars,
                LogVars, fails, failed, BatchVars, RepoVars, EnsureVars,
                BudgetMgrVars, budgetLog, CallVars, MemoVars, ListVars,
                MatchVars, clock, lastOp>>

\* A goroutine calls a method: c.mu.Lock().
Acquire ==
    /\ Len(opLog) < MaxOps
    /\ \E t \in Callers, o \in LockOps :
         /\ thr[t].pc = "idle"
         /\ CanLock(mu)
         /\ mu' = mu \cup {t}
         /\ thr' = [thr EXCEPT ![t] = [pc |-> FirstStep(o.op), call |-> o]]
         /\ opLog' = Append(opLog, [op |-> o.op, key |-> o.key, val |-> o.val,
                                    fault |-> o.fault, by |-> t])
    /\ UNCHANGED <<data, file>>
    /\ LockFrame

\* The next read or write of the method a goroutine is in.
Step ==
    /\ \E t \in Callers :
         LET o == thr[t].call
             at(p) == [thr EXCEPT ![t].pc = p]
         IN
         \/ /\ thr[t].pc = "read"
            /\ data' = AfterGet(data, o.key, clock)
            /\ thr' = at("unlock") /\ UNCHANGED file
         \/ /\ thr[t].pc = "store"
            /\ data' = CacheData(data.Version,
                                 MapPut(data.Entries, o.key,
                                        Entry(o.val[1], o.val[2], clock, DefaultTTLHours)))
            /\ thr' = at("create") /\ UNCHANGED file
         \/ /\ thr[t].pc = "sweep"
            /\ LET gone == ExpiredKeys(data, clock) IN
               /\ data' = CacheData(data.Version,
                                    [k \in DOMAIN data.Entries \ gone |-> data.Entries[k]])
               /\ thr' = at(IF gone # {} THEN "create" ELSE "unlock")
            /\ UNCHANGED file
         \/ \* os.Create truncates the file
            /\ thr[t].pc = "create"
            /\ IF o.fault = "create"
               THEN thr' = at("unlock") /\ UNCHANGED file
               ELSE thr' = at("encode") /\ file' = CorruptFile
            /\ UNCHANGED data
         \/ \* enc.Encode(c.data) writes the table as it is now
            /\ thr[t].pc = "encode"
            /\ file' = IF o.fault = "encode" THEN CorruptFile
                       ELSE JsonFile(Encode(data))
            /\ thr' = at("unlock") /\ UNCHANGED data
         \/ /\ thr[t].pc = "reset"
            /\ data' = CacheData(data.Version, EmptyMap)
            /\ thr' = at("remove") /\ UNCHANGED file
         \/ /\ thr[t].pc = "remove"
            /\ file' = ClearFile(file, RemoveFault(file, o.fault)).file
            /\ thr' = at("unlock") /\ UNCHANGED data
    /\ UNCHANGED <<mu, opLog>>
    /\ LockFrame

\* The method returns: the deferred c.mu.Unlock().
Release ==
    /\ \E t \in Callers :
         /\ thr[t].pc = "unlock"
         /\ mu' = mu \ {t}
         /\ thr' = [thr EXCEPT ![t].pc = "idle"]
    /\ UNCHANGED <<data, file, opLog>>
    /\ LockFrame

NextLock == Acquire \/ Step \/ Release

SpecLock == InitLock /\ [][NextLock]_vars

-----------------------------------------------------------------------------
\* findMatchingRepos on its own, over enumerated repositories.

\* At most this many repositories are listed.
MaxRepos == 2

\* The property values tried: strings, arrays with and without string
\* elements, the empty array, null and a number.
MatchValues ==
    {Str("a"), Str("z"), Arr(<<Item(TRUE, "a")>>),
     Arr(<<Item(FALSE, "a"), Item(TRUE, "b")>>), Arr(<<Item(FALSE, "a")>>),
     Arr(<<>>), NilValue, NumValue("a")}

\* The property lists tried: none, one property, or two of which the first
\* is of another name, does not match or matches, and the second is a string,
\* a number or an array without a string element.
MatchProps ==
    LET team == {Prop("team", v) : v \in MatchValues}
        all == team \cup {Prop("env", Str("a"))}
        first == {Prop("env", Str("a")), Prop("team", NilValue), Prop("team", Str("a"))}
        second == {Prop("team", Str("a")), Prop("team", NumValue("a")),
                   Prop("team", Arr(<<Item(FALSE, "a")>>))}
    IN {<<>>} \cup {<<p>> : p \in all} \cup {<<p, q>> : p \in first, q \in second}

\* Repository lists: the repository at index i is named org1/r<i>.
MatchRepoName(i) == IF i = 1 THEN "org1/r1" ELSE IF i = 2 THEN "org1/r2" ELSE IF i = 3 THEN "org1/r3" ELSE "org1/r4"

MatchRepoLists ==
    UNION {{[i \in 1..n |-> Repo(MatchRepoName(i), f[i])] : f \in [1..n -> MatchProps]} :
             n \in 0..MaxRepos}

\* The mappings whose property name and values are passed.
MatchMappings ==
    {ExplicitMapping("cc-x", n, vs) :
        n \in {"team", "env"}, vs \in {<<>>, <<"a">>, <<"b", "a", "b">>}}

InitMatch ==
    /\ flow = "repos"
    /\ scope = "organization" /\ mode = "auto" /\ orgs = <<"org1">>
    /\ mappings = Mappings
    /\ autoCreate = FALSE /\ removeUsers = FALSE /\ createBudgets = FALSE
    /\ runMode = "plan" /\ assignCheckCurrentCC = FALSE
    /\ remoteTeamMembers = EmptyMap
    /\ remoteCC = EmptyMap /\ remoteMember = EmptyMap
    /\ remoteCC0 = remoteCC /\ remoteMember0 = remoteMember
    /\ ccCache = NoCache
    /\ RunAtRest /\ BatchAtRest /\ EnsureAtRest /\ BudgetsAtRest /\ CallAtRest
    /\ CacheAtRest /\ MemoAtRest /\ ListAtRest /\ LockAtRest
    /\ \E mp \in MatchMappings : repoMappings = <<mp>>
    /\ allRepos \in MatchRepoLists
    /\ remoteRepo = EmptyMap /\ remoteRepo0 = EmptyMap /\ activeCCs = EmptyMap
    /\ rI = 0 /\ mappingResults = <<>> /\ repoCalls = {}
    /\ matchLog = <<>>

\* matching := findMatchingRepos(allRepos, mp.PropertyName, mp.PropertyValues)
\* (part_000 196-197).
Match ==
    /\ flow = "repos" /\ matchLog = <<>> /\ Len(repoMappings) = 1
    /\ matchLog' = <<findMatchingRepos(allRepos, repoMappings[1].PropertyName,
                                       repoMappings[1].PropertyValues)>>
    /\ UNCHANGED <<ConfigVars, RemoteVars, pc, err, membersCache, ccNameCache,
                   processed, userFinal, userTeamMap, assignments, SyncVars,
                   LogVars, fails, failed, BatchVars, RepoVars, EnsureVars,
                   BudgetMgrVars, budgetLog, CallVars, CacheVars, MemoVars,
                   ListVars, LockVars>>

NextMatch == Match

SpecMatch == InitMatch /\ [][NextMatch]_vars

-----------------------------------------------------------------------------
\* Properties of the resolver and of the failures of a build.

\* The teams of the configured sources, as <<key, team>>.
SourceTeams == UNION {{<<k, t>> : t \in Range(RemoteTeams(k))} : k \in ScopeKeys(scope, orgs)}

\* The final assignments that come from team t of source k.
FromTeam(k, t) == {u \in DOMAIN userFinal : userFinal[u].Org = k /\ userFinal[u].TeamSlug = t.Slug}

\* C28: costCenterForTeam is ok in auto mode with "[enterprise team] Name"
\* or "[org team] org/Name", in manual mode ok with the mapping of org/slug
\* (slug alone in enterprise scope) and not-ok without one, and not-ok for
\* any other mode, in which case the build ends with no error of its own
\* (only a failed team listing is reported) and with no assignment; a
\* team resolved not-ok has no final assignment, and every final assignment
\* carries the name its team resolves to.
C28_Resolver ==
    /\ \A kt \in SourceTeams :
          LET k == kt[1]
              t == kt[2]
              r == costCenterForTeam(EmptyMap, scope, mode, mappings, k, t)
              teamKey == IF scope = "enterprise" THEN t.Slug ELSE k \o "/" \o t.Slug
          IN /\ mode = "auto" =>
                  /\ r.ok
                  /\ scope = "enterprise" => r.name = "[enterprise team] " \o t.Name
                  /\ scope # "enterprise" => r.name = "[org team] " \o k \o "/" \o t.Name
             /\ mode = "manual" =>
                  /\ r.ok <=> teamKey \in DOMAIN mappings
                  /\ r.ok => r.name = mappings[teamKey]
             /\ mode \notin {"auto", "manual"} => ~r.ok
             /\ ~r.ok => FromTeam(k, t) = {}
             /\ \A u \in FromTeam(k, t) : userFinal[u].CostCenter = r.name
             /\ (<<k, t.Slug>> \in Range(processed) /\ r.ok) =>
                   (teamKey \in DOMAIN ccNameCache /\ ccNameCache[teamKey] = r.name)
    /\ (pc # "start" /\ mode \notin {"auto", "manual"}) =>
          /\ err \in {None, "fetching teams"}
          /\ userFinal = EmptyMap /\ assignments = EmptyMap

\* C28 witness: a manual build over org1 and org2 in which org1/team-b, which
\* has members but no mapping, was passed over while org1/team-a gave
\* assignments to cc-x.
C28_Witness ==
    /\ pc # "start" /\ err = None /\ mode = "manual" /\ scope = "organization"
    /\ <<"org1", "team-b">> \in Range(processed)
    /\ remoteTeamMembers[<<"org1", "team-b">>] = <<"bob">>
    /\ "org1/team-b" \notin DOMAIN ccNameCache
    /\ ccNameCache["org1/team-a"] = "cc-x"
    /\ DOMAIN userFinal = {"alice"} /\ userFinal["alice"].CostCenter = "cc-x"

\* An auto build in enterprise scope named the cost center of a team
\* "[enterprise team] Team A".
AutoEnterpriseName ==
    /\ pc # "start" /\ mode = "auto" /\ scope = "enterprise"
    /\ \E u \in DOMAIN userFinal :
          userFinal[u].TeamSlug = "team-a"
          /\ userFinal[u].CostCenter = "[enterprise team] Team A"

\* C29: when the listing of the teams fails for the enterprise or for an
\* organization, the run is over with that error, without any assignment
\* and without a create, budget, add or remove call; the remote state is
\* what it was.
C29_ListingFailureAborts ==
    err = "fetching teams" =>
       /\ pc = "done" /\ failed
       /\ assignments = EmptyMap /\ userFinal = EmptyMap /\ userTeamMap = EmptyMap
       /\ ccMap = EmptyMap /\ idBased = EmptyMap /\ results = EmptyMap
       /\ MutatingCalls = <<{}, {}, EmptyMap, EmptyMap, {}>>
       /\ remoteCC = remoteCC0 /\ remoteMember = remoteMember0

\* C29 witness: an apply run with auto-create, budgets and removal on, over
\* teams with members, ended on the failed team listing.
C29_Witness ==
    /\ err = "fetching teams" /\ pc = "done"
    /\ runMode = "apply" /\ autoCreate /\ createBudgets /\ removeUsers
    /\ \E ref \in DOMAIN remoteTeamMembers : remoteTeamMembers[ref] # <<>>

\* The key a team's lookups are memoized under, as the specification words
\* it: org/slug for organization scope, the bare slug for enterprise scope.
QualifiedKey(ref) ==
    IF scope = "enterprise" THEN ref[2] ELSE ref[1] \o "/" \o ref[2]

\* C32: within one run the members and the resolved name of a team are
\* memoized under org/slug (organization scope) or the bare slug (enterprise
\* scope): at most one remote member fetch per key, a remote fetch returns
\* the remote listing, every later lookup of the key returns what the first
\* one returned without a remote call, whatever the remote holds by then, and
\* a resolution that is not ok leaves no entry in the name cache.
C32_Memoized ==
    /\ \A i \in DOMAIN memoLog :
         LET e == memoLog[i] IN
         /\ e.teamKey = QualifiedKey(e.ref)
         /\ (e.fetched /\ ~e.failed) => e.members = e.remote
         /\ ~e.ok => (~e.fetched /\ e.teamKey \notin DOMAIN ccNameCache)
         /\ \A j \in DOMAIN memoLog :
              (i < j /\ memoLog[j].teamKey = e.teamKey) =>
                 /\ ~(e.fetched /\ memoLog[j].fetched)
                 /\ memoLog[j].ok = e.ok
                 /\ e.ok => /\ memoLog[j].nameHit /\ memoLog[j].name = e.name
                            /\ ~memoLog[j].fetched
                            /\ memoLog[j].members = e.members
         /\ (e.ok /\ ~e.fetched) =>
              \E k \in DOMAIN memoLog :
                 k < i /\ memoLog[k].ref = e.ref /\ memoLog[k].fetched
    /\ DOMAIN membersCache \subseteq {QualifiedKey(e.ref) : e \in Range(memoLog)}
    /\ DOMAIN ccNameCache \subseteq {QualifiedKey(e.ref) : e \in Range(memoLog)}

\* C32 witness: a team is looked up twice; the second lookup makes no remote
\* call and returns the first listing although the remote has changed, while
\* the team of the same slug in the other organization was fetched on its
\* own.
C32_Witness ==
    \E i, j, k \in DOMAIN memoLog :
       /\ i < j /\ memoLog[i].ref = memoLog[j].ref
       /\ memoLog[i].fetched /\ ~memoLog[j].fetched /\ memoLog[j].ok
       /\ memoLog[j].members = memoLog[i].members
       /\ memoLog[j].members # memoLog[j].remote
       /\ memoLog[k].ref # memoLog[i].ref /\ memoLog[k].ref[2] = memoLog[i].ref[2]
       /\ memoLog[k].fetched

\* A team without mapping is resolved anew at every lookup.
UnresolvedTwice ==
    \E i, j \in DOMAIN memoLog :
       i < j /\ memoLog[i].ref = memoLog[j].ref /\ ~memoLog[i].ok
       /\ ~memoLog[j].ok /\ ~memoLog[j].nameHit

\* The last call of GetAllActiveCostCenters.
LastList == listLog[Len(listLog)]

\* The names the response of listing l gives an active cost center with
\* name and id.
ListedNames(l) ==
    {l.resp[i].Name : i \in {k \in DOMAIN l.resp :
        l.resp[k].State = "active" /\ l.resp[k].Name # "" /\ l.resp[k].ID # ""}}

\* C33: after a successful GetAllActiveCostCenters with a cache attached,
\* every active cost center of the response that has a name and an id is in
\* the returned map and, while its entry has not expired, cache Get(name)
\* returns its id, whether or not the cache file could be written; a name
\* the response gives no such cost center is not in the map and its cache
\* entry is what it was before the call.
C33_ListFillsCache ==
    (listLog # <<>> /\ ~LastList.err) =>
        LET l == LastList IN
        /\ \A i \in DOMAIN l.resp :
             LET cc == l.resp[i] IN
             (cc.State = "active" /\ cc.Name # "" /\ cc.ID # "") =>
                /\ l.active[cc.Name] = cc.ID
                /\ clock - l.at <= DefaultTTLHours =>
                      /\ CacheGet(data, cc.Name, clock).found
                      /\ CacheGet(data, cc.Name, clock).entry.ID = cc.ID
                      /\ ccCache.entries[cc.Name] = cc.ID
        /\ DOMAIN l.active = ListedNames(l)
        /\ l.written = ListedNames(l)
        /\ \A k \in (DOMAIN data.Entries \cup DOMAIN l.before.Entries) \ ListedNames(l) :
             /\ k \in DOMAIN data.Entries /\ k \in DOMAIN l.before.Entries
             /\ data.Entries[k] = l.before.Entries[k]

\* C33 witness: the response names cc-x once deleted and once active; the
\* active id is what the cache returns, while the write of the cache file
\* failed and the older entry of cc-y is untouched.
C33_Witness ==
    /\ listLog # <<>> /\ ~LastList.err /\ clock = LastList.at
    /\ \E i, j \in DOMAIN LastList.resp :
         /\ LastList.resp[i].State = "deleted" /\ LastList.resp[j].State = "active"
         /\ LastList.resp[i].Name = LastList.resp[j].Name
         /\ LastList.faults[j] = "create"
         /\ CacheGet(data, LastList.resp[j].Name, clock).entry.ID = LastList.resp[j].ID
    /\ "cc-y" \in DOMAIN data.Entries /\ data.Entries["cc-y"].ID = "id:was-cc-y"

\* A failed listing writes nothing to the cache.
ListFailedKeepsCache ==
    (listLog # <<>> /\ LastList.err) =>
        data = LastList.before /\ LastList.active = EmptyMap

\* The orders n operations can be put in.
Perms(n) == {f \in [1..n -> 1..n] : \A i, j \in 1..n : f[i] = f[j] => i = j}

\* The table and the file are what the called methods leave when run one
\* after the other in the order `order`.
SerialOutcome(order) ==
    Replay(LockStart, opLog, order, 1, clock) = [data |-> data, file |-> file]

\* C34: the methods of one Cache exclude one another: at most one goroutine
\* is between Lock and Unlock, and whenever no method is running the table
\* and the file are what the methods called so far leave when run one after
\* the other in some order (the order in which they locked the mutex).
C34_MutuallyExclusive ==
    /\ Cardinality(mu) <= 1
    /\ \A t \in Callers : thr[t].pc # "idle" <=> t \in mu
    /\ mu = {} =>
          /\ \E f \in Perms(Len(opLog)) : SerialOutcome(f)
          /\ SerialOutcome([i \in 1..Len(opLog) |-> i])

\* C34 witness: two goroutines have called methods that do not commute (a
\* Set and a Clear), both have returned, and the outcome is that of the
\* order in which they took the lock and not that of the other order.
C34_Witness ==
    /\ mu = {} /\ Len(opLog) = 2
    /\ opLog[1].by # opLog[2].by
    /\ {opLog[1].op, opLog[2].op} = {"Set", "Clear"}
    /\ SerialOutcome(<<1, 2>>) /\ ~SerialOutcome(<<2, 1>>)

\* A goroutine is inside a method while the other wants the lock.
OneWaits ==
    \E t \in Callers : thr[t].pc = "encode" /\ file = CorruptFile /\ mu = {t}

\* The userFinal maps BuildTeamAssignments can end with on the group and
\* member lists of this state, one for every order of the range loop.
BuildOutcomes ==
    {ProcessAll([uf |-> EmptyMap, utm |-> EmptyMap, mc |-> EmptyMap,
                 nc |-> EmptyMap, processed |-> <<>>, err |-> FALSE],
                scope, mode, mappings, remoteTeamMembers, NoRef,
                fetchAllTeams(scope, orgs), order, <<1, 1>>).uf :
        order \in KeyOrders(scope, orgs)}

\* Indexes into the fetched team list of source k of the teams that resolve
\* to a cost center and have member u.
ListedGroupsOf(k, u) ==
    {i \in DOMAIN RemoteTeams(k) :
        /\ costCenterForTeam(EmptyMap, scope, mode, mappings, k, RemoteTeams(k)[i]).ok
        /\ u \in Range(FilterLogins(remoteTeamMembers[<<k, RemoteTeams(k)[i].Slug>>]))}

\* The subjects that belong to groups of two sources with different names.
CrossSourceSubjects ==
    {u \in AllLogins :
        \E k1, k2 \in ScopeKeys(scope, orgs) :
           /\ k1 # k2 /\ ListedGroupsOf(k1, u) # {} /\ ListedGroupsOf(k2, u) # {}}

\* C35: with one scope key the build has one outcome on given group and
\* member lists: every run ends with the same subject-to-cost-center map, in
\* which a subject of several groups has the cost center of the last group of
\* the fetched list that contains it, and the per-cost-center lists hold the
\* same assignments.  With two organizations a subject of groups of both has
\* one winner in one order of the range loop and another in the other.
C35_Determinism ==
    BuildReturned =>
        /\ userFinal \in BuildOutcomes
        /\ Cardinality(ScopeKeys(scope, orgs)) = 1 =>
              /\ BuildOutcomes = {userFinal}
              /\ \A k \in ScopeKeys(scope, orgs), u \in AllLogins :
                    ListedGroupsOf(k, u) # {} =>
                       LET last == CHOOSE i \in ListedGroupsOf(k, u) :
                                      \A j \in ListedGroupsOf(k, u) : j <= i
                       IN userFinal[u].TeamSlug = RemoteTeams(k)[last].Slug
              /\ \A cc \in DOMAIN assignments :
                    Range(assignments[cc]) =
                       {userFinal[u] : u \in {x \in DOMAIN userFinal :
                                                 userFinal[x].CostCenter = cc}}
        /\ \A u \in CrossSourceSubjects :
              \E o1, o2 \in BuildOutcomes :
                 o1[u].Org # o2[u].Org /\ o1[u].CostCenter # o2[u].CostCenter

\* C35 witness: two organizations are configured as org1, org2; a subject of
\* groups of both ended with the group of org1, the second run of the same
\* inputs being the one that ends with org2.
C35_Witness ==
    /\ BuildReturned /\ orgs = <<"org1", "org2">>
    /\ \E u \in CrossSourceSubjects :
         /\ userFinal[u].Org = "org1"
         /\ \E o \in BuildOutcomes : o[u].Org = "org2"

\* The same inputs with the other winner.
OtherWinner ==
    /\ BuildReturned /\ orgs = <<"org1", "org2">>
    /\ \E u \in CrossSourceSubjects : userFinal[u].Org = "org2"

\* One scope key and a subject of two groups.
SingleKeyConflict ==
    /\ BuildReturned /\ Cardinality(ScopeKeys(scope, orgs)) = 1
    /\ \E k \in ScopeKeys(scope, orgs), u \in AllLogins :
          Cardinality(ListedGroupsOf(k, u)) = 2

\* Whether a repository is to match, in the words of the specification: it
\* has a property of the given name whose value is a string among the values
\* or an array with a string element among them.
ShouldMatch(repo, propertyName, propertyValues) ==
    \E j \in DOMAIN repo.Properties :
       LET p == repo.Properties[j] IN
       /\ p.PropertyName = propertyName
       /\ \/ p.Value.kind = "string" /\ p.Value.s \in Range(propertyValues)
          \/ /\ p.Value.kind = "array"
             /\ \E i \in DOMAIN p.Value.items :
                   p.Value.items[i].str /\ p.Value.items[i].s \in Range(propertyValues)

\* C36: findMatchingRepos returns exactly the repositories that have a
\* property of the given name whose value is a string among propertyValues
\* or an array with a string element among them, each once and in the order
\* of the input; null, numbers, empty arrays, arrays without a matching string
\* element, other property names and repositories without properties do not
\* match.
C36_FindMatchingRepos ==
    matchLog # <<>> =>
        LET out == matchLog[1]
            mp == repoMappings[1]
            hits == {i \in DOMAIN allRepos :
                        ShouldMatch(allRepos[i], mp.PropertyName, mp.PropertyValues)}
        IN /\ Len(out) = Cardinality(hits)
           /\ \A i \in hits : \E k \in DOMAIN out : out[k] = allRepos[i]
           /\ \A k \in DOMAIN out : \E i \in hits : out[k] = allRepos[i]
           /\ \A k, l \in DOMAIN out :
                 k < l => \E i, j \in hits :
                             i < j /\ out[k] = allRepos[i] /\ out[l] = allRepos[j]

\* C36 witness: of two repositories the first has two matching properties
\* and is returned once, before the second, which matches by a string
\* element of an array that also holds an element of another type.
C36_Witness ==
    /\ matchLog # <<>> /\ Len(allRepos) = 2 /\ matchLog[1] = allRepos
    /\ Len(allRepos[1].Properties) = 2
    /\ \A j \in 1..2 : allRepos[1].Properties[j] = Prop("team", Str("a"))
    /\ allRepos[2].Properties = <<Prop("team", Arr(<<Item(FALSE, "a"), Item(TRUE, "b")>>))>>

\* Nothing matches: null, a number, an empty array, an array whose only
\* element is not a string, another property name.
NothingMatches ==
    /\ matchLog = <<<<>>>> /\ Len(allRepos) = 2
    /\ repoMappings[1].PropertyName = "team" /\ repoMappings[1].PropertyValues = <<"a">>
    /\ allRepos[1].Properties = <<Prop("team", NilValue), Prop("team", NumValue("a"))>>
    /\ allRepos[2].Properties = <<Prop("env", Str("a")), Prop("team", Arr(<<Item(FALSE, "a")>>))>>

\* The requests of the call that were not answered 429.
NonRateLimited == {i \in DOMAIN callLog : callLog[i].status # 429}

\* The counter stays below maxRetries inside the loop, the call returns at
\* the latest with its third outcome that is not a 429, the return after the
\* loop is never taken, and a 429 never ends the call.
CounterBelowMax ==
    /\ attempt < maxRetries
    /\ Cardinality(NonRateLimited) <= maxRetries
    /\ Cardinality(NonRateLimited) = maxRetries => callPc = "returned"
    /\ callRet.err # RetriesError
    /\ \A i \in DOMAIN callLog : callLog[i].status = 429 => callLog[i].retried
    /\ (callPc = "returned" /\ callLog # <<>>) =>
          /\ callLog[Len(callLog)].status # 429
          /\ \A i \in DOMAIN callLog : i < Len(callLog) => callLog[i].retried

\* C37 as stated: besides the above, every return is a success, a network
\* error or an APIError.
C37_Original ==
    /\ CounterBelowMax
    /\ callPc = "returned" => callRet.err.kind \in {"nil", "net", "api"}

\* The safety half of C37, amended: a return is a success, a decoding error,
\* a network error or an APIError.
ReturnKinds ==
    /\ CounterBelowMax
    /\ callPc = "returned" => callRet.err.kind \in {"nil", "decode", "net", "api"}

\* C37, amended: the attempt counter never reaches maxRetries inside the
\* loop, so the return after the loop is never taken and every return is a
\* success, a decoding error, a network error or an APIError; the call
\* returns at the latest with its third outcome that is not a 429, a 429
\* never ends it, and with finitely many 429 responses it returns.
C37_Amended == []ReturnKinds /\ <>(callPc = "returned")

\* C37 witness: a call that was answered 429 as often as the remote does,
\* used its three attempts on outcomes that are not a 429 and returned.
C37_Witness ==
    /\ callPc = "returned" /\ Count429(callLog) = Max429
    /\ Cardinality(NonRateLimited) = maxRetries
    /\ attempt = maxRetries - 1

\* The entries of a provisioning run that were answered by the durable cache
\* after a miss in the preload map.
CacheAnswers(run) == {e \in run.log : e.how = "cache"}

\* A name answered by the durable cache is mapped to the cached id, no create
\* request is sent for it, and a run whose names are all answered by the
\* preload map or the cache makes the preload listing and no other.
CacheHitNoRequests ==
    \A k \in DOMAIN eRuns :
       LET run == eRuns[k] IN
       \A e \in CacheAnswers(run) :
          /\ e.name \notin DOMAIN run.preload
          /\ run.ccMap[e.name] = e.id
          /\ e.name \notin run.creates
          /\ (\A f \in run.log : f.how \in {"cache", "preload"}) => run.lists = 1

\* C38: a requested name that misses the preload map and has a valid entry
\* in the durable cache is resolved to the cached id without a create or a
\* list request, and the id is not marked newly created.
C38_CacheHitNotNewlyCreated ==
    /\ CacheHitNoRequests
    /\ \A k \in DOMAIN eRuns :
          \A e \in CacheAnswers(eRuns[k]) : e.id \notin eRuns[k].newly

\* A run in which the cache answers a name the preload map does not hold.
CacheAnswered ==
    \E k \in DOMAIN eRuns : CacheAnswers(eRuns[k]) # {}

\* The additions of an apply run are over: BulkUpdateCostCenterAssignments
\* has visited every cost center of idBased.
AddsDone ==
    /\ flow = "teams" /\ runMode = "apply" /\ pc \in {"remove", "done"}
    /\ DOMAIN idBased # {} /\ DOMAIN results = DOMAIN idBased

\* The remote state the run started from is the desired one: every subject
\* of idBased was a member of its cost center.
AlreadyDesired ==
    \A id \in DOMAIN idBased :
       \A i \in DOMAIN idBased[id] : remoteMember0[idBased[id][i]] = id

\* The listing of the members of cost center id was answered.
Listed(id) == \A e \in addLog : e.cc = id => e.listed

C40_LookupFailureAdds ==
    \A e \in addLog :
        e.lookup = "fail" =>
            /\ ~IgnoreCurrentCC /\ e.listed /\ e.where # e.cc
            /\ e.sent
            /\ e.result = (e.after = e.cc)
            /\ CheckUserCostCenterMembership(remoteMember0, e.user, TRUE) = None

\* C40 witness: a subject assigned nowhere, and one assigned to another cost
\* center, whose lookup failed, was sent and added.
C40_Witness ==
    \E e \in addLog :
        /\ e.lookup = "fail" /\ e.sent /\ e.result = TRUE /\ e.after = e.cc
        /\ e.where = None

\* A failed lookup of a subject that is assigned elsewhere moves the subject.
LookupFailureMoves ==
    \E e \in addLog :
        /\ e.lookup = "fail" /\ e.sent /\ e.result = TRUE
        /\ e.where \notin {None, e.cc} /\ e.after = e.cc

\* The phases of SyncTeamAssignments in the order of its code.
PhaseRank(p) ==
    CASE p = "start" -> 0 [] p = "provision" -> 1 [] p = "budgets" -> 2
      [] p = "convert" -> 3 [] p = "add" -> 4 [] p = "remove" -> 5
      [] OTHER -> 6

\* One step of an apply run keeps the order of the phases.
PhaseStep ==
    /\ PhaseRank(pc') >= PhaseRank(pc)
    \* groups and members are fetched in the build only
    /\ (processed' # processed \/ membersCache' # membersCache) => pc = "start"
    \* create requests: after the build, before every add
    /\ (createCalls' # createCalls \/ ensureLog' # ensureLog) =>
          /\ pc = "provision" /\ assignments # EmptyMap
          /\ assignments' = assignments /\ userFinal' = userFinal
    /\ budgetCalls' # budgetCalls => pc = "budgets"
    \* add requests: after every create and budget request
    /\ (addCalls' # addCalls \/ addLog' # addLog) =>
          /\ pc = "add" /\ removeLog = {} /\ removeCalls = EmptyMap
    \* the removal pass: after the add requests of every cost center
    /\ (removeLog' # removeLog \/ removeCalls' # removeCalls) =>
          /\ pc = "remove"
          /\ \A id \in DOMAIN idBased : id \in DOMAIN addCalls

\* C31: in an apply run of SyncTeamAssignments the phases follow one another
\* in the order of the code: members are fetched only in the build, create
\* requests are issued only after the build and before any add request,
\* budget requests after the creates and before any add request, and the
\* membership fetches and remove requests of the removal pass only after the
\* add requests of every cost center.
C31_PhaseOrder ==
    [][(flow = "teams" /\ runMode = "apply") => PhaseStep]_vars

\* C31 witness: an apply run that created a cost center, created a budget,
\* sent an add batch and removed a stale member.
C31_Witness ==
    /\ flow = "teams" /\ runMode = "apply" /\ pc = "done"
    /\ createCalls # {} /\ budgetCalls # {}
    /\ \E id \in DOMAIN addCalls : addCalls[id] # <<>>
    /\ \E id \in DOMAIN removeCalls : removeCalls[id] # <<>>

\* The teams that resolve to a cost center and have members.
Contributing ==
    {kt \in SourceTeams :
        /\ costCenterForTeam(EmptyMap, scope, mode, mappings, kt[1], kt[2]).ok
        /\ FilterLogins(remoteTeamMembers[<<kt[1], kt[2].Slug>>]) # <<>>}

\* A failed add call for one cost center, or a failed batch of it, is
\* recorded as false results and the other cost centers are still visited.
CostCenterFailuresIsolated ==
    /\ \A r \in addLog : ~r.listed => (~r.result /\ r.cc \in DOMAIN results)
    /\ (flow = "teams" /\ runMode = "apply" /\ pc \in {"remove", "done"} /\ idBased # EmptyMap) =>
          /\ err = None
          /\ \A id \in DOMAIN idBased : id \in DOMAIN results /\ id \in DOMAIN addCalls

\* C30 as stated: a failure to fetch the members of one group is isolated
\* like a failed batch or cost center: the run goes on with the other groups,
\* so that when two groups have members at least one is assigned.
C30_Original ==
    /\ CostCenterFailuresIsolated
    /\ (err = "fetching members" /\ Cardinality(Contributing) >= 2) =>
          userFinal # EmptyMap

\* C30, amended: a failed add call or batch of one cost center is recorded as
\* false results and the run goes on with the other cost centers; a failure
\* to fetch the members of one group ends the run with that error, with no
\* assignment for any group and no create, budget, add or remove call.
C30_Amended ==
    /\ CostCenterFailuresIsolated
    /\ err = "fetching members" =>
          /\ pc = "done" /\ failed
          /\ assignments = EmptyMap /\ userFinal = EmptyMap
          /\ idBased = EmptyMap /\ results = EmptyMap
          /\ MutatingCalls = <<{}, {}, EmptyMap, EmptyMap, {}>>

\* C30 witness: the add call of one cost center failed, its user is
\* recorded false, and another cost center was still served.
C30_Witness ==
    /\ pc = "done" /\ err = None /\ runMode = "apply"
    /\ \E r1, r2 \in addLog :
          /\ r1.cc # r2.cc
          /\ ~r1.listed /\ ~results[r1.cc][r1.user]
          /\ r2.listed /\ r2.sent /\ results[r2.cc][r2.user]

\* The members of one group could not be fetched while two groups had
\* members: the run ended with the error and without assignments.
MemberFetchAborted ==
    /\ err = "fetching members" /\ pc = "done"
    /\ Cardinality(Contributing) >= 2 /\ assignments = EmptyMap

-----------------------------------------------------------------------------
\* Properties of the cost center cache.

\* The entry is within its TTL at time t.
WithinTTL(e, t) == t - e.CachedAt <= e.TTLHours

\* C21: Get(key) returns found=true and the stored entry iff the table has
\* an entry for key whose age is at most its TTLHours, and the zero entry
\* with found=false otherwise; after Set(key, id, name) a Get of key gives
\* {id, name, TTLHours 24} as long as no more than 24 hours have passed.
C21_GetIffValid ==
    /\ lastOp.op = "Get" =>
          LET d == lastOp.before.data
              k == lastOp.key
              valid == k \in DOMAIN d.Entries /\ WithinTTL(d.Entries[k], lastOp.at)
          IN /\ lastOp.found <=> valid
             /\ lastOp.found => lastOp.entry = d.Entries[k]
             /\ ~lastOp.found => lastOp.entry = ZeroEntry
    /\ lastOp.op = "Set" =>
          LET g == CacheGet(data, lastOp.key, clock) IN
          IF clock - lastOp.at <= 24
          THEN /\ g.found /\ g.entry.ID = lastOp.val[1]
               /\ g.entry.Name = lastOp.val[2] /\ g.entry.TTLHours = 24
          ELSE ~g.found /\ g.entry = ZeroEntry

\* C21 witness: a Get found the entry id-1 exactly 24 hours after it was set.
C21_Witness ==
    /\ lastOp.op = "Get" /\ lastOp.found /\ lastOp.key = "a"
    /\ lastOp.entry.ID = "id-1" /\ lastOp.entry.Name = "One"
    /\ lastOp.entry.TTLHours = 24
    /\ lastOp.at - lastOp.entry.CachedAt = 24

\* A Get missed an entry that is in the table but older than its TTL.
GetMissedExpired ==
    /\ lastOp.op = "Get" /\ ~lastOp.found
    /\ lastOp.key \in DOMAIN data.Entries
    /\ lastOp.at - data.Entries[lastOp.key].CachedAt = 25

\* The JSON document that holds table d under the current format version.
FileOf(d) ==
    [exists |-> TRUE, parses |-> TRUE,
     json |-> [version |-> 1, null |-> FALSE,
               entries |-> [k \in DOMAIN d.Entries |->
                              [id |-> d.Entries[k].ID, name |-> d.Entries[k].Name,
                               cached_at |-> d.Entries[k].CachedAt,
                               ttl_hours |-> d.Entries[k].TTLHours]]]]

Rejected(f) == ~f.exists \/ ~f.parses \/ f.json.version # 1

\* C23: New returns a cache and a nil error whatever the file is; when the
\* file is missing, cannot be opened or parsed, or carries another format
\* version, the cache has the current version and no entry, and neither Get
\* nor GetStats shows an entry of that file.
C23_NewNeverFails ==
    lastOp.op = "New" =>
       /\ lastOp.err = "nil"
       /\ data.Version = 1
       /\ (Rejected(lastOp.before.file) \/ lastOp.fault = "open") =>
             /\ data.Entries = EmptyMap
             /\ \A k \in CacheKeys \cup DOMAIN lastOp.before.file.json.entries :
                   CacheGet(data, k, clock) = [entry |-> ZeroEntry, found |-> FALSE]
             /\ CacheStats(data, clock) = NoStats

\* C23 witness: New found a parsable file of format version 2 holding an
\* entry for "a" and returned an empty cache.
C23_Witness ==
    /\ lastOp.op = "New" /\ lastOp.err = "nil"
    /\ lastOp.before.file.parses /\ lastOp.before.file.json.version = 2
    /\ "a" \in DOMAIN lastOp.before.file.json.entries
    /\ data = CacheData(1, EmptyMap)

\* New found a file that cannot be parsed and returned an empty cache.
NewOverCorruptFile ==
    /\ lastOp.op = "New" /\ lastOp.err = "nil"
    /\ lastOp.before.file.exists /\ ~lastOp.before.file.parses
    /\ lastOp.before.data.Entries # EmptyMap
    /\ data = CacheData(1, EmptyMap)

\* The keys of table d whose entries are older than their TTL at time t.
Stale(d, t) == {k \in DOMAIN d.Entries : t - d.Entries[k].CachedAt > d.Entries[k].TTLHours}

\* C24: Get and GetStats leave the table and the file as they found them,
\* so an expired entry stays in the table; GetStats counts it as expired,
\* with TotalEntries = ValidEntries + ExpiredEntries; a Set leaves the
\* entries of the other keys, expired or not, in place.
C24_ReadsDoNotModify ==
    /\ lastOp.op \in {"Get", "GetStats"} =>
          data = lastOp.before.data /\ file = lastOp.before.file
    /\ lastOp.op = "GetStats" =>
          /\ lastOp.stats.TotalEntries = Cardinality(DOMAIN data.Entries)
          /\ lastOp.stats.ExpiredEntries = Cardinality(Stale(data, lastOp.at))
          /\ lastOp.stats.TotalEntries =
                lastOp.stats.ValidEntries + lastOp.stats.ExpiredEntries
    /\ lastOp.op = "Set" =>
          \A k \in DOMAIN lastOp.before.data.Entries \ {lastOp.key} :
             k \in DOMAIN data.Entries /\ data.Entries[k] = lastOp.before.data.Entries[k]

\* C24 witness: GetStats counted one valid and one expired entry of two, and
\* the expired entry is still in the table.
C24_Witness ==
    /\ lastOp.op = "GetStats"
    /\ lastOp.stats = [TotalEntries |-> 2, ExpiredEntries |-> 1, ValidEntries |-> 1]
    /\ Cardinality(Stale(data, lastOp.at)) = 1
    /\ data = lastOp.before.data

\* C25: a Set whose save fails (directory, file creation or write) returns
\* an error and leaves a sound table: the new entry is in it, every other
\* entry is as before, and Get answers from it; a Clear whose file removal
\* fails returns an error, with the table emptied and the file left alone.
C25_PersistFailureKeepsTable ==
    /\ (lastOp.op = "Set" /\ lastOp.fault # "ok") =>
          /\ lastOp.err # "nil"
          /\ data.Version = 1
          /\ DOMAIN data.Entries = DOMAIN lastOp.before.data.Entries \cup {lastOp.key}
          /\ \A k \in DOMAIN data.Entries \ {lastOp.key} :
                data.Entries[k] = lastOp.before.data.Entries[k]
          /\ data.Entries[lastOp.key] =
                [ID |-> lastOp.val[1], Name |-> lastOp.val[2],
                 CachedAt |-> lastOp.at, TTLHours |-> 24]
          /\ CacheGet(data, lastOp.key, lastOp.at) =
                [entry |-> data.Entries[lastOp.key], found |-> TRUE]
    /\ (lastOp.op = "Clear" /\ lastOp.fault # "ok") =>
          /\ lastOp.err # "nil"
          /\ data = CacheData(1, EmptyMap)
          /\ file = lastOp.before.file
    /\ (lastOp.op \in {"Set", "Clear"} /\ lastOp.fault = "ok") => lastOp.err = "nil"

\* C25 witness: a Set of "a" failed while writing the file; the table holds
\* the new entry for "a" and the untouched entry for "b".
C25_Witness ==
    /\ lastOp.op = "Set" /\ lastOp.key = "a" /\ lastOp.fault = "encode"
    /\ lastOp.err = "encoding cache file"
    /\ "b" \in DOMAIN lastOp.before.data.Entries
    /\ DOMAIN data.Entries = {"a", "b"}
    /\ data.Entries["b"] = lastOp.before.data.Entries["b"]
    /\ data.Entries["a"].ID = lastOp.val[1]

\* A Clear could not remove the file and returned the error.
ClearFailed ==
    /\ lastOp.op = "Clear" /\ lastOp.err = "removing cache file"
    /\ lastOp.before.data.Entries # EmptyMap /\ data.Entries = EmptyMap
    /\ file.exists

\* C26: CleanupExpired deletes exactly the entries that are expired when it
\* is called and returns their number; the valid entries stay as they were;
\* the file is left alone and the error is nil when nothing was expired, and
\* the file is rewritten with the remaining table when something was.
C26_CleanupExact ==
    lastOp.op = "CleanupExpired" =>
       LET old == lastOp.before.data
           gone == Stale(old, lastOp.at)
       IN /\ DOMAIN data.Entries = DOMAIN old.Entries \ gone
          /\ \A k \in DOMAIN data.Entries : data.Entries[k] = old.Entries[k]
          /\ lastOp.removed = Cardinality(gone)
          /\ gone = {} => (lastOp.removed = 0 /\ lastOp.err = "nil"
                           /\ file = lastOp.before.file)
          /\ (gone # {} /\ lastOp.fault = "ok") =>
                (lastOp.err = "nil" /\ file = FileOf(data))

\* C26 witness: of two entries CleanupExpired removed the expired one, kept
\* the valid one and rewrote the file.
C26_Witness ==
    /\ lastOp.op = "CleanupExpired" /\ lastOp.removed = 1 /\ lastOp.err = "nil"
    /\ Cardinality(DOMAIN lastOp.before.data.Entries) = 2
    /\ Cardinality(DOMAIN data.Entries) = 1
    /\ file = FileOf(data) /\ file # lastOp.before.file

\* CleanupExpired found valid entries only, returned 0 and left the file.
CleanupNoneExpired ==
    /\ lastOp.op = "CleanupExpired" /\ lastOp.removed = 0 /\ lastOp.err = "nil"
    /\ data.Entries # EmptyMap /\ data = lastOp.before.data
    /\ file = lastOp.before.file

ClearWithoutFile ==
    /\ lastOp.op = "Clear" /\ lastOp.err = "nil"
    /\ ~lastOp.before.file.exists /\ ~file.exists

-----------------------------------------------------------------------------
\* Properties of the request helper.

Returned == callPc = "returned"

IsLast(i) == i = Len(callLog) /\ Returned

TransientAt(i) == callLog[i].err = "transient"

\* C17: of the attempts of one doJSON call at most 3 fail with a transient
\* network error; the 1st and the 2nd such failure are retried after a wait
\* of 1s*2^attempt (1s, then 2s), the 3rd ends the call with that error; a
\* network error that is not transient ends the call at once with that error.
C17_TransientErrorsRetried ==
    /\ Cardinality({i \in DOMAIN callLog : TransientAt(i)}) <= 3
    /\ \A i \in DOMAIN callLog :
         /\ (TransientAt(i) /\ callLog[i].attempt < 2) =>
               /\ callLog[i].retried
               /\ callLog[i].wait = Pow2(callLog[i].attempt)
               /\ callLog[i].wait \in {1, 2}
               /\ i < Len(callLog) => callLog[i + 1].at = callLog[i].at + callLog[i].wait
         /\ (TransientAt(i) /\ callLog[i].attempt >= 2) =>
               /\ callLog[i].attempt = 2 /\ IsLast(i)
               /\ callRet.err.kind = "net" /\ isTransient(callRet.err.text)
               /\ ~callRet.resp
         /\ callLog[i].err = "other" =>
               /\ IsLast(i) /\ ~callLog[i].retried /\ callLog[i].wait = 0
               /\ callRet.err.kind = "net" /\ ~isTransient(callRet.err.text)
               /\ ~callRet.resp
    /\ (Len(callLog) >= 1 /\ callLog[1].err = "other") => Len(callLog) = 1

\* C17 witness: three attempts failed with transient errors, the call waited
\* 1s and 2s and returned the third error.
C17_Witness ==
    /\ Returned /\ Len(callLog) = 3
    /\ \A i \in 1..3 : TransientAt(i)
    /\ callLog[1].wait = 1 /\ callLog[2].wait = 2 /\ now = 3
    /\ callRet.err.kind = "net"

RateLimitedAt(i) == callLog[i].err = "" /\ callLog[i].status = 429

\* A 429 response leaves the attempt counter alone and the request is issued
\* again after the wait.
RateLimitKeepsBudget ==
    \A i \in DOMAIN callLog :
       RateLimitedAt(i) =>
          /\ callLog[i].retried
          /\ i = Len(callLog) => (callPc = "loop" /\ attempt = callLog[i].attempt)
          /\ i < Len(callLog) =>
                /\ callLog[i + 1].attempt = callLog[i].attempt
                /\ callLog[i + 1].at = callLog[i].at + callLog[i].wait

\* C18 as stated: a 429 response never changes the attempt counter and the
\* request is re-issued; the wait is reset time - now + 1s whenever the
\* reset header is present and 60s when it is absent.
C18_Original ==
    /\ RateLimitKeepsBudget
    /\ \A i \in DOMAIN callLog :
          RateLimitedAt(i) =>
             callLog[i].wait = IF callLog[i].reset.text
                               THEN callLog[i].reset.value - callLog[i].at + 1
                               ELSE 60

\* C18, amended: a 429 response never changes the attempt counter and the
\* request is re-issued; the wait is 60s when the reset header is absent or
\* is not an integer, reset time - now + 1s when that is positive, and 1s
\* when the reset time lies a second or more in the past.
C18_Amended ==
    /\ RateLimitKeepsBudget
    /\ \A i \in DOMAIN callLog :
          RateLimitedAt(i) =>
             LET h == callLog[i].reset
                 d == h.value - callLog[i].at + 1
             IN callLog[i].wait = IF ~h.text \/ ~h.digits THEN 60
                                  ELSE IF d > 0 THEN d ELSE 1

\* C18 witness: a 429 with a reset 2s ahead (3s wait), then a transient
\* error, then a 429 without the header (60s wait); the counter is still 1
\* and the loop goes on.
C18_Witness ==
    /\ Len(callLog) = 3 /\ callPc = "loop" /\ attempt = 1
    /\ RateLimitedAt(1) /\ callLog[1].reset = IntHeader(2) /\ callLog[1].wait = 3
    /\ TransientAt(2)
    /\ RateLimitedAt(3) /\ ~callLog[3].reset.text /\ callLog[3].wait = 60
    /\ callLog[3].attempt = 1 /\ now = 64

ServerErrorAt(i) == callLog[i].err = "" /\ callLog[i].status \in {500, 502, 503, 504}

\* The attempt ended in a transient error or in a retryable server error.
ConsumingAt(i) == TransientAt(i) \/ ServerErrorAt(i)

\* C19: 500, 502, 503 and 504 draw on the attempt counter of the transient
\* network errors: each such attempt finds the counter at the number of
\* such attempts before it, there are never more than 3 of them in any mix,
\* the 1st and the 2nd are retried after 1s and 2s, and a server error that
\* is the 3rd ends the call with an APIError carrying its status.
C19_ServerErrorsShareBudget ==
    /\ Cardinality({i \in DOMAIN callLog : ConsumingAt(i)}) <= 3
    /\ \A i \in DOMAIN callLog :
          ConsumingAt(i) =>
             /\ callLog[i].attempt = Cardinality({j \in 1..(i - 1) : ConsumingAt(j)})
             /\ callLog[i].attempt < 2 =>
                   /\ callLog[i].retried
                   /\ callLog[i].wait = IF callLog[i].attempt = 0 THEN 1 ELSE 2
             /\ (ServerErrorAt(i) /\ callLog[i].attempt >= 2) =>
                   /\ IsLast(i) /\ callRet.resp
                   /\ callRet.err.kind = "api"
                   /\ callRet.err.StatusCode = callLog[i].status

\* C19 witness: a transient error, a 503 and a 502 used up the budget, with
\* waits of 1s and 2s, and the call returned an APIError with status 502.
C19_Witness ==
    /\ Returned /\ Len(callLog) = 3
    /\ TransientAt(1) /\ callLog[1].wait = 1
    /\ ServerErrorAt(2) /\ callLog[2].status = 503 /\ callLog[2].wait = 2
    /\ ServerErrorAt(3) /\ callLog[3].status = 502
    /\ callRet.err.kind = "api" /\ callRet.err.StatusCode = 502

\* The attempt got a response that is not 2xx and not in retryableStatusCodes.
TerminalStatusAt(i) ==
    /\ callLog[i].err = ""
    /\ ~(callLog[i].status >= 200 /\ callLog[i].status < 300)
    /\ callLog[i].status \notin {429, 500, 502, 503, 504}

\* The attempt got a 2xx response whose body does not decode into the
\* destination the caller passed.
DecodeFailedAt(i) ==
    /\ callLog[i].err = ""
    /\ callLog[i].status >= 200 /\ callLog[i].status < 300
    /\ dest /\ ~callLog[i].resp.decodable

\* C20: a non-2xx status outside {429, 500, 502, 503, 504} is not retried:
\* the call ends with that response and an APIError carrying its status and
\* the first 4096 bytes of its body at most (the text "<error reading body>"
\* when the body cannot be read); a 2xx response whose body fails to decode
\* into the destination ends the call with an error and no further request.
C20_TerminalOutcomes ==
    \A i \in DOMAIN callLog :
       /\ TerminalStatusAt(i) =>
             /\ IsLast(i) /\ ~callLog[i].retried /\ callLog[i].wait = 0
             /\ callRet.resp /\ callRet.err.kind = "api"
             /\ callRet.err.StatusCode = callLog[i].status
             /\ callRet.err.Body.len <= 4096
             /\ callRet.err.Body.marker = callLog[i].resp.Body.readErr
             /\ ~callRet.err.Body.marker =>
                   callRet.err.Body.len = Min(callLog[i].resp.Body.len, 4096)
       /\ DecodeFailedAt(i) =>
             /\ IsLast(i) /\ ~callLog[i].retried /\ callLog[i].wait = 0
             /\ callRet.resp /\ callRet.err.kind = "decode"

\* C20 witness: the first response was a 404 with a body of 5000 bytes; the
\* call returned an APIError with status 404 and 4096 bytes of body.
C20_Witness ==
    /\ Returned /\ Len(callLog) = 1 /\ TerminalStatusAt(1)
    /\ callLog[1].status = 404 /\ callLog[1].resp.Body = Body(5000)
    /\ callRet.err = APIError(404, [marker |-> FALSE, len |-> 4096])

\* A call whose only response was a 2xx that did not decode returned the
\* decode error.
DecodeFailureReturned ==
    /\ Returned /\ Len(callLog) = 1 /\ DecodeFailedAt(1)
    /\ callRet = Return(TRUE, DecodeError)

-----------------------------------------------------------------------------
\* The batch loop of AddUsersToCostCenter on lists of up to MaxToAdd subjects.

\* Mutant: the loop stops at the first failed batch.
AfterBatch_Break(i, ok, n) == IF ok THEN i + batchSize ELSE n

\* The offset at which the loop goes on after a batch (part_003 275, 291:
\* `continue`, then i += batchSize, whether or not the request failed).
AfterBatch(i, ok, n) == i + batchSize

InitBatch ==
    /\ scope = "organization" /\ mode = "auto" /\ orgs = <<"org1">>
    /\ mappings = Mappings
    /\ autoCreate = FALSE /\ removeUsers = FALSE /\ createBudgets = FALSE
    /\ runMode = "apply" /\ assignCheckCurrentCC = FALSE
    /\ remoteTeamMembers = EmptyMap
    /\ remoteCC = EmptyMap /\ remoteMember = EmptyMap
    /\ remoteCC0 = remoteCC /\ remoteMember0 = remoteMember
    /\ ccCache = NoCache
    /\ RunAtRest /\ RepoAtRest /\ ComponentsAtRest
    /\ bToAdd \in {[i \in 1..n |-> i] : n \in 1..MaxToAdd}
    /\ bI = 0 /\ bResults = EmptyMap /\ bSent = <<>>

\* One iteration of the loop (part_003 275-297): the request of the batch at
\* offset bI succeeds or fails.
SendBatch ==
    /\ bI < Len(bToAdd)
    /\ \E ok \in BOOLEAN :
         LET end == BatchEnd(bI, Len(bToAdd))
             batch == SubSeq(bToAdd, bI + 1, end)
         IN /\ bResults' = [u \in DOMAIN bResults \cup Range(batch) |->
                               IF u \in Range(batch) THEN ok ELSE bResults[u]]
            /\ bSent' = Append(bSent, [batch |-> batch, ok |-> ok])
            /\ bI' = AfterBatch(bI, ok, Len(bToAdd))
    /\ UNCHANGED <<ConfigVars, RemoteVars, pc, err, membersCache, ccNameCache,
                   processed, userFinal, userTeamMap, assignments, SyncVars,
                   LogVars, fails, failed, bToAdd, RepoVars, ComponentVars>>

NextBatch == SendBatch

SpecBatch == InitBatch /\ [][NextBatch]_vars

SentSubjects == Concat([k \in DOMAIN bSent |-> bSent[k].batch])

\* C8: the subjects go out in consecutive batches of at most 50; a failed
\* batch marks exactly its own subjects false, and the batches after it are
\* still sent.
C8_Batching ==
    /\ \A k \in DOMAIN bSent :
         /\ Len(bSent[k].batch) \in 1..50
         /\ \A u \in Range(bSent[k].batch) : bResults[u] = bSent[k].ok
    /\ SentSubjects = SubSeq(bToAdd, 1, Len(SentSubjects))
    /\ DOMAIN bResults = Range(SentSubjects)
    /\ bI >= Len(bToAdd) => SentSubjects = bToAdd

\* C8 witness: three batches of 50, 50 and 20 subjects were sent, the first
\* one failed and the later ones succeeded.
C8_Witness ==
    /\ Len(bSent) = 3 /\ bI >= Len(bToAdd)
    /\ ~bSent[1].ok /\ bSent[2].ok /\ bSent[3].ok
    /\ Len(bSent[1].batch) = 50 /\ Len(bSent[3].batch) = 20
    /\ \A u \in Range(bSent[1].batch) : ~bResults[u]

====
